---- MODULE Spec2Model ----
(***************************************************************************)
(* Role reconciliation of disblox (src/bot_manager.py): one Discord member *)
(* of one guild, the guild's ServerConfig and GroupRole rows, the user's   *)
(* linked Roblox accounts, and the two remote Roblox lookups.              *)
(*                                                                         *)
(* A call of verify_user / update_user is one action.  The platform may    *)
(* reject any mutation call (member.edit, member.remove_roles,             *)
(* member.add_roles, member.send): the action's input F is the set of      *)
(* ordinals, in issue order within the call, of the calls that raise.      *)
(* A rejected remove_roles / add_roles changes nothing.  member.roles and  *)
(* member.nick are read as the platform's current state.                   *)
(***************************************************************************)
EXTENDS Integers, Sequences, FiniteSets, TLC

VARIABLES
    serverConfig,    \* the guild's ServerConfig row (models.py ServerConfig), or NoConfig
    userRow,         \* TRUE iff a User row exists for the member's discord id
    linkedAccounts,  \* the user's LinkedAccount rows, in creation order
    guildRoles,      \* ids of the roles that exist in the guild
    memberNick,      \* member.nick (None when unset)
    memberRoles,     \* ids of the roles the member holds
    groupLookup,     \* what GET groups.roblox.com/v1/users/{id}/groups/roles answers
    profileLookup,   \* what GET users.roblox.com/v1/users/{id} answers
    ret,             \* return value of the last verify_user / update_user call
    issued,          \* the platform calls the last call issued, in order
    streak           \* consecutive fully successful calls since the last external change

\* The process-wide singletons of cache_manager.py.
VARIABLES
    now,             \* time.time()
    cache,           \* CacheManager._cache: the entries, in insertion order
    cacheRet,        \* the last completed cache operation and what it returned
    lock,            \* CacheManager._lock: the thread holding it, or None
    threads,         \* where each thread stands in the cache operation it runs
    rate_limits,     \* DiscordCacheManager.rate_limits: endpoint -> timestamps
    rateLog          \* the check_rate_limit calls made so far and their answers

reconVars == <<serverConfig, userRow, linkedAccounts, guildRoles, memberNick, memberRoles,
               groupLookup, profileLookup, ret, issued, streak>>
cacheVars == <<cache, cacheRet>>
threadVars == <<lock, threads>>
rateVars == <<rate_limits, rateLog>>

\* The rest of the process: what the other components of the application own.
VARIABLES
    rate_limit_lock, \* DiscordCacheManager.rate_limit_lock: the thread holding it, or None
    rateThreads,     \* where each thread stands in the check_rate_limit call it runs
    bot_thread,      \* BotManager.bot_thread (run_bot): "running" or "ended"
    bot_ready,       \* BotManager.bot_ready
    bot_loop,        \* BotManager._bot_loop: None, or the loop of bot_thread
    issuedOn,        \* for each call of issued, the loop that executed it
    interaction,     \* the last slash command: its invoker, target and permissions
    clientGuilds,    \* self.bot.guilds: ids of the guilds the client is in
    bot_guilds,      \* BotManager.bot_guilds
    bot_user,        \* BotManager.bot_user
    heldList,            \* the list a caller got from get_guilds and still holds
    guildRet,        \* the last get_guilds / get_guild / get_user call and its answer
    users,           \* discord ids of the User rows
    linked,          \* the users that have a LinkedAccount row
    dependents,      \* the users that have UserSession or VerificationServer rows
    userServers,     \* the UserServer rows: <<user, guild>>
    serverConfigs,   \* guild -> its ServerConfig row, or NoRow
    groupRoles,      \* the GroupRole rows, in insertion order
    botServers,      \* the guilds that have a BotServer row
    dbRet,           \* the last database operation, and what it found
    discord_tokens,  \* auth.discord_tokens: user -> the state of the stored Discord token
    sessions,        \* the users that have an unexpired UserSession row
    authRet,         \* the last login or authenticated request, and its outcome
    linkedRows,      \* the LinkedAccount rows, in insertion order: user and roblox_id
    linkReqs         \* where each user's link_roblox_account request stands

rateThreadVars == <<rate_limit_lock, rateThreads>>
botVars == <<bot_thread, bot_ready, bot_loop>>
guildVars == <<clientGuilds, bot_guilds, bot_user, heldList, guildRet>>
dbVars == <<users, linked, dependents, userServers, serverConfigs, groupRoles, botServers, dbRet>>
callVars == <<issuedOn, interaction>>
authVars == <<discord_tokens, sessions, authRet>>
linkVars == <<linkedRows, linkReqs>>
appVars == <<rateThreadVars, botVars, callVars, guildVars, dbVars, authVars, linkVars>>

vars == <<reconVars, now, cacheVars, threadVars, rateVars, appVars>>

(***************************************************************************)
(* Bounds of the model.                                                    *)
(***************************************************************************)
MaxFailures == 1     \* at most this many platform calls are rejected in one call
MaxStreak == 2       \* streak is counted up to this value
MaxNickLen == 32     \* the platform rejects a longer nickname (Discord: HTTP 400),
                     \* which ends the growth of a nickname built from itself

(***************************************************************************)
(* Values.                                                                 *)
(***************************************************************************)
None == "<None>"     \* Python None of a string-valued field
NoRole == 0          \* Python None / missing value of a role-id field
NoConfig == [setup_completed |-> FALSE, nickname_format |-> "none",
             verified_role_enabled |-> FALSE, verified_role_id |-> NoRole,
             roles_to_remove |-> <<>>, group_id |-> None, group_name |-> None,
             group_roles_enabled |-> FALSE, exists |-> FALSE]

\* The guild's roles: id -> name.  Role 3 carries the name of a Roblox rank
\* ("Member") that is also one of the default names; role 5 is named after the group.
RoleIds == 1..5
RoleNames == <<"Verified", "Owner", "Member", "Newcomers", "Builders">>
RoleName(r) == RoleNames[r]

MemberName == "alice"         \* member.name
MemberGlobalName == "Alice"   \* member.global_name

TargetGroup == "G1"
OtherGroup == "G2"

\* GroupRole rows of the config, in query order: Roblox role id -> Discord role id.
GroupRoleRows ==
    << [roblox_role_id |-> 10, discord_role_id |-> 2],
       [roblox_role_id |-> 11, discord_role_id |-> 3],
       [roblox_role_id |-> 12, discord_role_id |-> NoRole] >>

Range(s) == {s[i] : i \in DOMAIN s}
Names(rs) == [i \in DOMAIN rs |-> RoleName(rs[i])]

EmptyEmbed == [nickname_updated |-> None, roles_added |-> <<>>, roles_removed |-> <<>>,
               group_roles_added |-> <<>>, group_roles_removed |-> <<>>]
NoReturn == [success |-> FALSE, signal |-> "none", has_embed |-> FALSE, embed |-> EmptyEmbed]

(***************************************************************************)
(* The platform calls.  s is the call's working state:                     *)
(*   nick, roles : the member as the platform holds it                     *)
(*   log         : the platform calls issued so far                        *)
(*   embed       : embed_data                                              *)
(*   raised      : an exception is propagating                             *)
(***************************************************************************)
Call(op, step, roles, nick, ok) ==
    [op |-> op, step |-> step, roles |-> roles, nick |-> nick, ok |-> ok]

\* The next platform call is one the platform rejects.
Fails(F, log) == (Len(log) + 1) \in F

\* safe_discord_operation(member.edit, nick=new)
edit_nick(s, new, F) ==
    LET ok == ~Fails(F, s.log) /\ Len(new) <= MaxNickLen
    IN [s EXCEPT !.log = Append(@, Call("edit", "nickname", <<>>, new, ok)),
                 !.nick = IF ok THEN new ELSE @,
                 !.raised = ~ok]

\* Mutant of remove_roles: an accepted call strips the member of every role.
remove_roles_All(s, step, rs, F) ==
    LET ok == ~Fails(F, s.log)
    IN [s EXCEPT !.log = Append(@, Call("remove_roles", step, rs, None, ok)),
                 !.roles = IF ok THEN {} ELSE @,
                 !.raised = ~ok]

\* safe_discord_operation(member.remove_roles, *rs)
remove_roles(s, step, rs, F) ==
    LET ok == ~Fails(F, s.log)
    IN [s EXCEPT !.log = Append(@, Call("remove_roles", step, rs, None, ok)),
                 !.roles = IF ok THEN @ \ Range(rs) ELSE @,
                 !.raised = ~ok]

\* safe_discord_operation(member.add_roles, r)
add_roles(s, step, r, F) ==
    LET ok == ~Fails(F, s.log)
    IN [s EXCEPT !.log = Append(@, Call("add_roles", step, <<r>>, None, ok)),
                 !.roles = IF ok THEN @ \cup {r} ELSE @,
                 !.raised = ~ok]

\* safe_discord_operation(member.send, embed=...)
send_dm(s, kind, F) ==
    LET ok == ~Fails(F, s.log)
    IN [s EXCEPT !.log = Append(@, Call("send", kind, <<>>, None, ok)),
                 !.raised = ~ok]

\* member.display_name: the nickname if set, else the global name, else the name.
display_name(nick) ==
    IF nick # None THEN nick
    ELSE IF MemberGlobalName # None THEN MemberGlobalName ELSE MemberName

\* discord.utils.get(member.guild.roles, name=name): the first role of that name.
RoleByName(guild, name) ==
    LET named == {r \in guild : RoleName(r) = name}
    IN IF named = {} THEN NoRole ELSE CHOOSE r \in named : \A q \in named : r <= q

\* Mutant of get_formatted_nickname: the roblox_username and discord_username
\* branches are swapped.
get_formatted_nickname_Swapped(nick, acct, format_type, profile) ==
    CASE format_type = "roblox_username" -> MemberName
      [] format_type = "discord_username" -> acct.roblox_username
      [] format_type = "roblox_display" ->
            IF profile.answered /\ profile.status = 200 /\ profile.displayName # None
            THEN profile.displayName ELSE acct.roblox_username
      [] format_type = "discord_display" -> display_name(nick)
      [] format_type = "discord_display_with_roblox" ->
            display_name(nick) \o " (@" \o acct.roblox_username \o ")"
      [] format_type = "none" -> None
      [] OTHER -> acct.roblox_username

(***************************************************************************)
(* get_formatted_nickname                                                  *)
(***************************************************************************)
get_formatted_nickname(nick, acct, format_type, profile) ==
    CASE format_type = "roblox_username" -> acct.roblox_username
      [] format_type = "roblox_display" ->
            IF ~profile.answered THEN acct.roblox_username
            ELSE IF profile.status = 200
                 THEN (IF profile.displayName # None THEN profile.displayName
                       ELSE acct.roblox_username)
                 ELSE acct.roblox_username
      [] format_type = "discord_display" -> display_name(nick)
      [] format_type = "discord_username" -> MemberName
      [] format_type = "discord_display_with_roblox" ->
            display_name(nick) \o " (@" \o acct.roblox_username \o ")"
      [] format_type = "none" -> None
      [] OTHER -> acct.roblox_username

(***************************************************************************)
(* apply_server_config_sync_with_tracking, step 1: nickname                *)
(***************************************************************************)
NicknameStep(s, cfg, acct, profile, F) ==
    IF cfg.nickname_format = "none" THEN s
    ELSE LET new == get_formatted_nickname(s.nick, acct, cfg.nickname_format, profile)
         IN IF new # None /\ new # "" /\ new # s.nick
            THEN LET s1 == edit_nick(s, new, F)
                 IN IF s1.raised
                    THEN [s1 EXCEPT !.raised = FALSE]
                    ELSE [s1 EXCEPT !.embed.nickname_updated = new]
            ELSE s

(***************************************************************************)
(* apply_server_config_sync_with_tracking, step 2: verified role           *)
(***************************************************************************)
\* Mutant of VerifiedRolesToRemove: the loop stops at the first role it finds.
VerifiedRolesToRemove_FirstOnly(s, cfg, guild) ==
    LET all == SelectSeq(cfg.roles_to_remove, LAMBDA r : r \in guild /\ r \in s.roles)
    IN IF all = <<>> THEN <<>> ELSE <<all[1]>>

\* The roles of roles_to_remove that exist and that the member holds, in list order.
VerifiedRolesToRemove(s, cfg, guild) ==
    SelectSeq(cfg.roles_to_remove, LAMBDA r : r \in guild /\ r \in s.roles)

\* Mutant of VerifiedRoleStep: a verified role missing from the guild raises out
\* of the step.
VerifiedRoleStep_MissingRaises(s, cfg, guild, F) ==
    IF ~(cfg.verified_role_enabled /\ cfg.verified_role_id # NoRole) THEN s
    ELSE IF cfg.verified_role_id \notin guild THEN [s EXCEPT !.raised = TRUE]
    ELSE IF cfg.verified_role_id \in s.roles THEN s
    ELSE LET toRemove == VerifiedRolesToRemove(s, cfg, guild)
             s1 == IF toRemove # <<>>
                   THEN LET r1 == remove_roles(s, "verified", toRemove, F)
                        IN IF r1.raised THEN r1
                           ELSE [r1 EXCEPT !.embed.roles_removed = @ \o Names(toRemove)]
                   ELSE s
             s2 == IF s1.raised THEN s1
                   ELSE LET r2 == add_roles(s1, "verified", cfg.verified_role_id, F)
                        IN IF r2.raised THEN r2
                           ELSE [r2 EXCEPT !.embed.roles_added =
                                              Append(@, RoleName(cfg.verified_role_id))]
         IN [s2 EXCEPT !.raised = FALSE]

VerifiedRoleStep(s, cfg, guild, F) ==
    IF ~(cfg.verified_role_enabled /\ cfg.verified_role_id # NoRole) THEN s
    ELSE IF cfg.verified_role_id \notin guild THEN s
    ELSE IF cfg.verified_role_id \in s.roles THEN s
    ELSE LET toRemove == VerifiedRolesToRemove(s, cfg, guild)
             s1 == IF toRemove # <<>>
                   THEN LET r1 == remove_roles(s, "verified", toRemove, F)
                        IN IF r1.raised THEN r1
                           ELSE [r1 EXCEPT !.embed.roles_removed = @ \o Names(toRemove)]
                   ELSE s
             s2 == IF s1.raised THEN s1
                   ELSE LET r2 == add_roles(s1, "verified", cfg.verified_role_id, F)
                        IN IF r2.raised THEN r2
                           ELSE [r2 EXCEPT !.embed.roles_added =
                                              Append(@, RoleName(cfg.verified_role_id))]
         IN [s2 EXCEPT !.raised = FALSE]

(***************************************************************************)
(* assign_default_group_role_sync_with_tracking                            *)
(***************************************************************************)
\* Mutant of discord_group_roles: the loop stops at the first role it finds.
discord_group_roles_FirstOnly(rows, guild) ==
    LET ids == [i \in DOMAIN rows |-> rows[i].discord_role_id]
        all == SelectSeq(ids, LAMBDA r : r # NoRole /\ r \in guild)
    IN IF all = <<>> THEN <<>> ELSE <<all[1]>>

\* discord_group_roles: the Discord roles of the rows that have a discord_role_id
\* naming a role of the guild, in row order.
discord_group_roles(rows, guild) ==
    LET ids == [i \in DOMAIN rows |-> rows[i].discord_role_id]
    IN SelectSeq(ids, LAMBDA r : r # NoRole /\ r \in guild)

\* for role_name in default_role_names, from position i on.
RECURSIVE DefaultRoleLoop(_, _, _, _, _)
DefaultRoleLoop(s, names, i, guild, F) ==
    IF i > Len(names) THEN s
    ELSE LET role == IF names[i] # None /\ names[i] # ""
                     THEN RoleByName(guild, names[i]) ELSE NoRole
         IN IF role # NoRole /\ role \notin s.roles
            THEN LET s1 == add_roles(s, "default", role, F)
                 IN IF ~s1.raised THEN s1
                    ELSE DefaultRoleLoop([s1 EXCEPT !.raised = FALSE], names, i + 1, guild, F)
            ELSE DefaultRoleLoop(s, names, i + 1, guild, F)

assign_default_group_role_sync_with_tracking(s, cfg, rows, guild, F) ==
    LET held == SelectSeq(discord_group_roles(rows, guild), LAMBDA r : r \in s.roles)
        s1 == IF held # <<>> THEN remove_roles(s, "default", held, F) ELSE s
    IN IF s1.raised THEN [s1 EXCEPT !.raised = FALSE]
       ELSE DefaultRoleLoop(s1, <<cfg.group_name, "Newcomers", "Member">>, 1, guild, F)

(***************************************************************************)
(* assign_group_roles_sync_with_tracking: returns the working state and    *)
(* the function's own embed_data (roles_added, roles_removed).             *)
(***************************************************************************)
\* The first entry of user_groups whose group id is the configured one (0: none).
TargetGroupIndex(groups, group_id) ==
    LET hits == {i \in DOMAIN groups : groups[i].group_id = group_id}
    IN IF hits = {} THEN 0 ELSE CHOOSE i \in hits : \A j \in hits : i <= j

\* Mutant of MatchingRowIndex: the first row is taken whatever its roblox_role_id.
MatchingRowIndex_FirstRow(rows, user_role_id) ==
    IF rows = <<>> THEN 0 ELSE 1

\* The first row whose roblox_role_id is the user's role id (0: none).
MatchingRowIndex(rows, user_role_id) ==
    LET hits == {i \in DOMAIN rows : rows[i].roblox_role_id = user_role_id}
    IN IF hits = {} THEN 0 ELSE CHOOSE i \in hits : \A j \in hits : i <= j

assign_group_roles_sync_with_tracking(s, cfg, rows, guild, lookup, F) ==
    LET held == SelectSeq(discord_group_roles(rows, guild), LAMBDA r : r \in s.roles)
        s1 == IF held # <<>> THEN remove_roles(s, "group", held, F) ELSE s
        ed1 == [roles_added |-> <<>>,
                roles_removed |-> IF held # <<>> /\ ~s1.raised THEN Names(held) ELSE <<>>]
        caught == [s |-> [s1 EXCEPT !.raised = FALSE], ed |-> ed1]
    IN IF s1.raised THEN caught                        \* remove_roles raised
       ELSE IF cfg.group_id = None THEN caught
       ELSE IF ~lookup.answered THEN caught            \* the request raised (timeout)
       ELSE IF lookup.status # 200 THEN caught
       ELSE LET t == TargetGroupIndex(lookup.groups, cfg.group_id)
            IN IF t = 0
               THEN [s |-> assign_default_group_role_sync_with_tracking(s1, cfg, rows, guild, F),
                     ed |-> ed1]
               ELSE LET m == MatchingRowIndex(rows, lookup.groups[t].role_id)
                    IN IF m = 0 THEN caught
                       ELSE IF rows[m].discord_role_id = NoRole THEN caught   \* int(None) raised
                       ELSE IF rows[m].discord_role_id \notin guild THEN caught
                       ELSE LET s2 == add_roles(s1, "group", rows[m].discord_role_id, F)
                            IN IF s2.raised
                               THEN [s |-> [s2 EXCEPT !.raised = FALSE], ed |-> ed1]
                               ELSE [s |-> s2,
                                     ed |-> [ed1 EXCEPT !.roles_added =
                                               Append(@, RoleName(rows[m].discord_role_id))]]

(***************************************************************************)
(* apply_server_config_sync_with_tracking, step 3 and the whole function   *)
(***************************************************************************)
GroupRoleStep(s, cfg, rows, guild, lookup, F) ==
    IF cfg.group_roles_enabled /\ cfg.group_id # None
    THEN LET g == assign_group_roles_sync_with_tracking(s, cfg, rows, guild, lookup, F)
         IN [g.s EXCEPT !.embed.group_roles_added = @ \o g.ed.roles_added,
                        !.embed.group_roles_removed = @ \o g.ed.roles_removed]
    ELSE s

\* send_verification_dm: every failure of the send is swallowed.  is_update only
\* selects the layout of the embed, which the model does not carry.
send_verification_dm(s, F) ==
    [send_dm(s, "result", F) EXCEPT !.raised = FALSE]

\* Mutant of apply_server_config_sync_with_tracking: the DM is sent outside any
\* try block, so a rejected send propagates to the caller.
apply_server_config_Unguarded(s, cfg, acct, rows, guild, lookup, profile, F) ==
    LET s1 == NicknameStep(s, cfg, acct, profile, F)
        s2 == VerifiedRoleStep(s1, cfg, guild, F)
        s3 == GroupRoleStep(s2, cfg, rows, guild, lookup, F)
    IN send_dm(s3, "result", F)

\* Mutant of apply_server_config_sync_with_tracking: the group-role step runs
\* before the verified-role step.
apply_server_config_GroupFirst(s, cfg, acct, rows, guild, lookup, profile, F) ==
    LET s1 == NicknameStep(s, cfg, acct, profile, F)
        s2 == GroupRoleStep(s1, cfg, rows, guild, lookup, F)
        s3 == VerifiedRoleStep(s2, cfg, guild, F)
    IN send_verification_dm(s3, F)

apply_server_config_sync_with_tracking(s, cfg, acct, rows, guild, lookup, profile, F) ==
    LET s1 == NicknameStep(s, cfg, acct, profile, F)
        s2 == IF s1.raised THEN s1 ELSE VerifiedRoleStep(s1, cfg, guild, F)
        s3 == IF s2.raised THEN s2 ELSE GroupRoleStep(s2, cfg, rows, guild, lookup, F)
        s4 == IF s3.raised THEN s3 ELSE send_verification_dm(s3, F)
    IN [s4 EXCEPT !.raised = FALSE]        \* the function's outer except Exception

(***************************************************************************)
(* verify_user and update_user                                             *)
(***************************************************************************)
\* Mutant of SelectAccount: the first account, verified or not.
SelectAccount_First(accounts) == accounts[1]

\* next((acc for acc in linked_accounts if acc.verified), linked_accounts[0])
SelectAccount(accounts) ==
    LET verified == {i \in DOMAIN accounts : accounts[i].verified}
    IN IF verified = {} THEN accounts[1]
       ELSE accounts[CHOOSE i \in verified : \A j \in verified : i <= j]

Start(nick, roles) ==
    [nick |-> nick, roles |-> roles, log |-> <<>>, embed |-> EmptyEmbed, raised |-> FALSE]

Return(success, signal, has_embed, s) ==
    [s |-> [s EXCEPT !.raised = FALSE], ret |-> [success |-> success, signal |-> signal, has_embed |-> has_embed,
                       embed |-> IF has_embed THEN s.embed ELSE EmptyEmbed]]

\* The "link your account" DM of verify_user: member.send is called directly, and
\* only discord.Forbidden is caught beside it; any other exception reaches the
\* outer handler of verify_user.
LinkInstructions(s, exc, F) ==
    LET s1 == send_dm(s, "link", F)
    IN IF s1.raised /\ exc # "Forbidden"
       THEN Return(FALSE, "failed", FALSE, s1)
       ELSE Return(FALSE, "no_linked_identity", FALSE, s1)

verify_user(nick, roles, cfg, user, accounts, rows, guild, lookup, profile, exc, F) ==
    LET s == Start(nick, roles)
    IN IF ~cfg.exists \/ ~cfg.setup_completed THEN Return(FALSE, "not_configured", FALSE, s)
       ELSE IF ~user THEN LinkInstructions(s, exc, F)
       ELSE IF accounts = <<>> THEN LinkInstructions(s, exc, F)
       ELSE LET out == apply_server_config_sync_with_tracking(
                           s, cfg, SelectAccount(accounts), rows, guild, lookup, profile, F)
            IN IF out.raised THEN Return(FALSE, "failed", FALSE, out)   \* outer except
               ELSE Return(TRUE, "ok", TRUE, out)

update_user(nick, roles, cfg, user, accounts, rows, guild, lookup, profile, F) ==
    LET s == Start(nick, roles)
    IN IF ~cfg.exists \/ ~cfg.setup_completed THEN Return(FALSE, "not_configured", FALSE, s)
       ELSE IF ~user THEN Return(FALSE, "no_linked_identity", FALSE, s)
       ELSE IF accounts = <<>> THEN Return(FALSE, "no_linked_identity", FALSE, s)
       ELSE LET out == apply_server_config_sync_with_tracking(
                           s, cfg, SelectAccount(accounts), rows, guild, lookup, profile, F)
            IN IF out.raised THEN Return(FALSE, "failed", FALSE, out)   \* outer except
               ELSE Return(TRUE, "ok", TRUE, out)

(***************************************************************************)
(* Inputs                                                                  *)
(***************************************************************************)
\* Ordinals of the platform calls of one call: edit, two calls of the verified-role
\* step, remove_roles of the group step, up to three adds, the DM.
CallOrdinals == 1..8
FailureSets == {F \in SUBSET CallOrdinals : Cardinality(F) <= MaxFailures}
ExceptionKinds == {"Forbidden", "HTTPException"}

Account(name, id, verified) == [roblox_username |-> name, roblox_id |-> id, verified |-> verified]

Answer(status, groups) == [answered |-> TRUE, status |-> status, groups |-> groups]
InGroup(g, r) == [group_id |-> g, role_id |-> r]
NoAnswer == [answered |-> FALSE, status |-> 0, groups |-> <<>>]
GroupLookups ==
    {NoAnswer, Answer(500, <<>>), Answer(200, <<InGroup(OtherGroup, 99)>>)}
    \cup {Answer(200, <<InGroup(OtherGroup, 99), InGroup(TargetGroup, r)>>) : r \in 10..13}

Profile(status, displayName) == [answered |-> TRUE, status |-> status, displayName |-> displayName]
NoProfile == [answered |-> FALSE, status |-> 0, displayName |-> None]
ProfileLookups == {NoProfile, Profile(500, None), Profile(200, None), Profile(200, "FooDisp")}

NicknameFormats == {"none", "roblox_username", "roblox_display", "discord_display",
                    "discord_username", "discord_display_with_roblox"}

Config(done, fmt, ve, vid, rtr, ge, gid, gname) ==
    [setup_completed |-> done, nickname_format |-> fmt,
     verified_role_enabled |-> ve, verified_role_id |-> vid, roles_to_remove |-> rtr,
     group_id |-> gid, group_name |-> gname, group_roles_enabled |-> ge, exists |-> TRUE]

(***************************************************************************)
(* The cache and the rate limiter at rest.                                 *)
(***************************************************************************)
Threads == {"w1", "w2", "cleanup"}      \* two request workers and _cleanup_thread
Endpoints == {"user_info", "user_guilds"}

NoOp == [op |-> "none", key |-> None, result |-> None, removed |-> {}, at |-> 0]
IdleThread == [op |-> "idle", stage |-> "idle", key |-> None, value |-> None,
               ttl |-> 0, item |-> <<>>, keys |-> <<>>, result |-> None, raised |-> FALSE,
               before |-> <<>>, at |-> 0]

CacheInit ==
    /\ now = 0
    /\ cache = <<>>
    /\ cacheRet = NoOp
    /\ lock = None
    /\ threads = [t \in Threads |-> IdleThread]

RateInit ==
    /\ rate_limits = [e \in Endpoints |-> <<>>]
    /\ rateLog = <<>>

\* A thread that is not inside check_rate_limit.
IdleRateThread == [stage |-> "idle", endpoint |-> None, limit |-> 0, window |-> 0,
                   current_time |-> 0, requests |-> <<>>, aliased |-> FALSE,
                   allowed |-> FALSE]

RateThreadInit ==
    /\ rate_limit_lock = None
    /\ rateThreads = [t \in {"w1", "w2"} |-> IdleRateThread]

\* The event loops: the one bot.run() drives in bot_thread, and the HTTP server's.
BotLoop == "bot_loop"
HttpLoop == "http_loop"

\* No slash command has been received.
NoInteraction ==
    [command |-> "none", in_guild |-> FALSE, targets_self |-> FALSE, manage_roles |-> FALSE]

\* BotManager.__init__, create_bot and start_bot have run.
BotInit ==
    /\ bot_thread = "running"
    /\ bot_ready = FALSE
    /\ bot_loop = None
    /\ issuedOn = <<>>
    /\ interaction = NoInteraction

GuildIds == {1, 2}
BotUser == "bot"
NothingHeld == [taken |-> FALSE, list |-> <<>>, aliased |-> FALSE]
NoGuildCall == [op |-> "none", arg |-> 0, result |-> <<>>, ready |-> FALSE]

\* The client is in guild 1; nobody has asked for the guilds yet.
GuildInit ==
    /\ clientGuilds = <<1>>
    /\ bot_guilds = <<>>
    /\ bot_user = None
    /\ heldList = NothingHeld
    /\ guildRet = NoGuildCall

UserIds == {"u1", "u2"}
NoRow == [exists |-> FALSE, setup_completed |-> FALSE, setup_step |-> "nickname",
          group_id |-> None, group_roles_enabled |-> FALSE]
NoDbOp == [op |-> "none", user |-> None, guild |-> 0, found |-> FALSE]

\* An empty database.
DbInit ==
    /\ users = {}
    /\ linked = {}
    /\ dependents = {}
    /\ userServers = {}
    /\ serverConfigs = [g \in GuildIds |-> NoRow]
    /\ groupRoles = <<>>
    /\ botServers = {}
    /\ dbRet = NoDbOp

\* No user has logged in.
NoAuthOp == [op |-> "none", user |-> None, ok |-> FALSE]
AuthInit ==
    /\ discord_tokens = [u \in UserIds |-> "absent"]
    /\ sessions = {}
    /\ authRet = NoAuthOp

\* The Roblox account each user signs in with when nothing else is said.
RobloxIds == {"r1", "r2"}
RobloxOf(u) == IF u = "u1" THEN "r1" ELSE "r2"
LinkedAccountRow(u, rid) == [user |-> u, roblox_id |-> rid]

\* No link request is in progress.
IdleLink == [stage |-> "idle", roblox_id |-> None]
LinkInit ==
    /\ linkedRows = <<>>
    /\ linkReqs = [u \in UserIds |-> IdleLink]

AppInit ==
    /\ AuthInit
    /\ LinkInit
    /\ RateThreadInit
    /\ BotInit
    /\ GuildInit
    /\ DbInit

(***************************************************************************)
(* Initial states: three families of situations.                           *)
(***************************************************************************)
\* Role policies in every combination, any set of existing and heldList roles.
InitRoles ==
    /\ \E ve \in BOOLEAN, ge \in BOOLEAN :
          /\ serverConfig = Config(TRUE, "roblox_username", ve, 1, <<4, 5>>, ge,
                                   IF ge THEN TargetGroup ELSE None,
                                   IF ge THEN "Builders" ELSE None)
          /\ groupLookup \in GroupLookups
          /\ (~ge => groupLookup = NoAnswer)
    /\ userRow = TRUE
    /\ linkedAccounts = <<Account("Foo123", 100, TRUE)>>
    /\ guildRoles \in SUBSET RoleIds
    /\ memberRoles \in SUBSET guildRoles
    /\ memberNick = "Bar"
    /\ profileLookup = NoProfile

\* Every nickname policy, with role policies off.
InitNick ==
    /\ \E fmt \in NicknameFormats :
          serverConfig = Config(TRUE, fmt, FALSE, NoRole, <<>>, FALSE, None, None)
    /\ userRow = TRUE
    /\ linkedAccounts = <<Account("Foo123", 100, TRUE)>>
    /\ guildRoles = RoleIds
    /\ memberRoles = {}
    /\ memberNick \in {None, "Bar", "Foo123"}
    /\ groupLookup = NoAnswer
    /\ profileLookup \in ProfileLookups

\* Configured or not, with or without a user row and linked accounts.
InitEntry ==
    /\ serverConfig \in {NoConfig} \cup
          {Config(done, "roblox_username", TRUE, 1, <<>>, FALSE, None, None) :
              done \in BOOLEAN}
    /\ \E v1 \in BOOLEAN, v2 \in BOOLEAN, n \in 0..2 :
          /\ (n < 2 => ~v2) /\ (n < 1 => ~v1)
          /\ linkedAccounts = SubSeq(<<Account("Foo123", 100, v1), Account("Zed9", 200, v2)>>, 1, n)
          /\ userRow \in BOOLEAN
          /\ (~userRow => n = 0)
    /\ guildRoles = RoleIds
    /\ memberRoles \in {{}, {4}}
    /\ memberNick = "Bar"
    /\ groupLookup = NoAnswer
    /\ profileLookup = NoProfile

Init ==
    /\ InitRoles \/ InitNick \/ InitEntry
    /\ ret = NoReturn
    /\ issued = <<>>
    /\ streak = 0
    /\ CacheInit /\ RateInit /\ AppInit

(***************************************************************************)
(* Actions                                                                 *)
(***************************************************************************)
\* Role and nickname mutations among the issued calls.
Mutations(log) == SelectSeq(log, LAMBDA c : c.op # "send")
AllSucceeded(log) == \A i \in DOMAIN log : log[i].op # "send" => log[i].ok

\* The call has returned.  F names calls that were issued: the calls of the call
\* that the platform rejected.
FinishRecon(F, out) ==
    /\ F \subseteq DOMAIN out.s.log
    /\ memberNick' = out.s.nick
    /\ memberRoles' = out.s.roles
    /\ ret' = out.ret
    /\ issued' = out.s.log
    /\ streak' = IF out.ret.success /\ AllSucceeded(out.s.log)
                 THEN (IF streak < MaxStreak THEN streak + 1 ELSE MaxStreak)
                 ELSE 0
    /\ UNCHANGED <<serverConfig, userRow, linkedAccounts, guildRoles, groupLookup, profileLookup>>
    /\ UNCHANGED <<now, cacheVars, threadVars, rateVars>>

Finish(F, out) == FinishRecon(F, out) /\ UNCHANGED appVars

\* /verify, the verify button
VerifyUser ==
    \E F \in FailureSets, exc \in ExceptionKinds :
        /\ exc # "Forbidden" =>        \* the kind matters to the link DM alone
              /\ F # {}
              /\ serverConfig.exists /\ serverConfig.setup_completed
              /\ ~userRow \/ linkedAccounts = <<>>
        /\ Finish(F, verify_user(memberNick, memberRoles, serverConfig, userRow, linkedAccounts,
                                 GroupRoleRows, guildRoles, groupLookup, profileLookup, exc, F))

\* /update
UpdateUser ==
    \E F \in FailureSets :
        Finish(F, update_user(memberNick, memberRoles, serverConfig, userRow, linkedAccounts,
                              GroupRoleRows, guildRoles, groupLookup, profileLookup, F))

Next == VerifyUser \/ UpdateUser

Spec == Init /\ [][Next]_vars

(***************************************************************************)
(* Vocabulary of the properties                                            *)
(***************************************************************************)
Configured(cfg) == cfg.exists /\ cfg.setup_completed
GroupPolicyOn(cfg) == Configured(cfg) /\ cfg.group_roles_enabled /\ cfg.group_id # None
VerifiedPolicyOn(cfg) == Configured(cfg) /\ cfg.verified_role_enabled /\ cfg.verified_role_id # NoRole

\* The Discord roles of the full set of GroupRole rows of the config.
MappedRoles == {GroupRoleRows[i].discord_role_id : i \in DOMAIN GroupRoleRows} \ {NoRole}

\* The roles of the guild that carry one of the default names, in list order.
DefaultNames(cfg) == <<cfg.group_name, "Newcomers", "Member">>
DefaultRoles(cfg, guild) ==
    SelectSeq([i \in 1..3 |-> RoleByName(guild, DefaultNames(cfg)[i])], LAMBDA r : r # NoRole)

\* The lookup answered 200 and the identity is not in the configured group.
NotInGroup(cfg, lookup) ==
    lookup.answered /\ lookup.status = 200 /\ TargetGroupIndex(lookup.groups, cfg.group_id) = 0
\* The lookup answered 200 and lists the configured group.
InTargetGroup(cfg, lookup) ==
    lookup.answered /\ lookup.status = 200 /\ TargetGroupIndex(lookup.groups, cfg.group_id) # 0

\* The last call ran the reconciliation.
Reconciled == ret.success /\ ret.has_embed
Issued(log, op, step) == {i \in DOMAIN log : log[i].op = op /\ log[i].step = step}
SomeFailed(log, op, step) == \E i \in Issued(log, op, step) : ~log[i].ok
SomeOk(log, op, step) == \E i \in Issued(log, op, step) : log[i].ok

(***************************************************************************)
(* C1  Idempotence: the second of two consecutive reconciliations whose    *)
(* platform mutations all succeed returns an empty diff and issues no role *)
(* or nickname mutation.                                                   *)
(***************************************************************************)
C1_SecondCallEmptyDiff ==
    streak >= 2 => /\ ret.embed = EmptyEmbed
                   /\ Mutations(issued) = <<>>

(***************************************************************************)
(* C2  Mutual exclusivity: after a reconciliation whose group-role step    *)
(* completed (group policy on, its remove_roles not rejected), the member  *)
(* holds at most one role of the full set of GroupRole mappings.           *)
(***************************************************************************)
GroupStepCompleted ==
    /\ Reconciled
    /\ GroupPolicyOn(serverConfig)
    /\ ~SomeFailed(issued, "remove_roles", "group")
    /\ ~SomeFailed(issued, "remove_roles", "default")

C2_MutualExclusivity ==
    GroupStepCompleted => Cardinality(memberRoles \cap MappedRoles) <= 1

\* The member heldList both mapped roles, the step removed them and added one back.
C2_Witness ==
    /\ GroupStepCompleted
    /\ \E i \in Issued(issued, "remove_roles", "group") : Len(issued[i].roles) = 2
    /\ SomeOk(issued, "add_roles", "group")
    /\ Cardinality(memberRoles \cap MappedRoles) = 1

(***************************************************************************)
(* C3  Fallback default role: group policy on, lookup answered, identity   *)
(* not in the group, one of the default names exists in the guild, every   *)
(* mutation accepted: the member holds exactly the first existing role of  *)
(* [group_name, "Newcomers", "Member"] among the default-named roles, and  *)
(* no other mapped role.                                                   *)
(***************************************************************************)
C3_ExactlyFirstDefaultRole ==
    LET ds == DefaultRoles(serverConfig, guildRoles)
    IN (/\ Reconciled
        /\ AllSucceeded(issued)
        /\ GroupPolicyOn(serverConfig)
        /\ NotInGroup(serverConfig, groupLookup)
        /\ ds # <<>>)
       => /\ memberRoles \cap Range(ds) = {ds[1]}
          /\ memberRoles \cap MappedRoles \subseteq {ds[1]}

(***************************************************************************)
(* C4  Identity in the target group.  The role the step is to give: the    *)
(* Discord role of the first row matching the identity's role id, when it  *)
(* has a discord_role_id naming a role of the guild (NoRole otherwise).    *)
(***************************************************************************)
HasIdentity == userRow /\ linkedAccounts # <<>>
Called == ret.signal # "none"

MatchedRole(cfg, rows, guild, lookup) ==
    LET t == TargetGroupIndex(lookup.groups, cfg.group_id)
        hits == {i \in DOMAIN rows : rows[i].roblox_role_id = lookup.groups[t].role_id}
        m == IF hits = {} THEN 0 ELSE CHOOSE i \in hits : \A j \in hits : i <= j
    IN IF m # 0 /\ rows[m].discord_role_id \in guild THEN rows[m].discord_role_id ELSE NoRole

C4_Outcome ==
    LET d == MatchedRole(serverConfig, GroupRoleRows, guildRoles, groupLookup)
    IN /\ Reconciled
       /\ memberRoles \cap MappedRoles = (IF d # NoRole THEN {d} ELSE {})

C5_Case ==
    /\ VerifiedPolicyOn(serverConfig)
    /\ serverConfig.verified_role_id \in guildRoles
    /\ serverConfig.verified_role_id \notin memberRoles
    /\ ret'.success /\ ret'.has_embed
    /\ AllSucceeded(issued')
C5_S == Range(serverConfig.roles_to_remove) \cap memberRoles

C5_Result ==
    /\ ret'.embed.roles_added = <<RoleName(serverConfig.verified_role_id)>>
    /\ Range(ret'.embed.roles_removed) = {RoleName(r) : r \in C5_S}
    /\ Len(ret'.embed.roles_removed) = Cardinality(C5_S)
C5_Member ==
    /\ serverConfig.verified_role_id \in memberRoles'
    /\ memberRoles' \cap C5_S = {}
\* The group-role step of the call neither removed the verified role nor added a
\* role of S.
C5_GroupStepApart ==
    \A i \in DOMAIN issued' :
        issued'[i].step \in {"group", "default"}
        => Range(issued'[i].roles) \cap (C5_S \cup {serverConfig.verified_role_id}) = {}

\* C5 as claimed: after the call the member holds the verified role and no role
\* of S, and the result lists the verified role as added and exactly S as removed.
C5_VerifiedRoleStep == [][C5_Case => (C5_Member /\ C5_Result)]_vars

\* C5 as amended: the result lists the verified role as added and exactly S as
\* removed; the member holds the verified role and no role of S provided the
\* group-role step of the same call did not remove the verified role or add a
\* role of S.
C5_VerifiedRoleStepApart ==
    [][C5_Case => (C5_Result /\ (C5_GroupStepApart => C5_Member))]_vars

\* Both listed roles were heldList and removed, then the verified role was added.
C5_Witness ==
    /\ Reconciled /\ AllSucceeded(issued) /\ VerifiedPolicyOn(serverConfig)
    /\ \E i \in Issued(issued, "remove_roles", "verified") : Len(issued[i].roles) = 2
    /\ SomeOk(issued, "add_roles", "verified")
    /\ serverConfig.verified_role_id \in memberRoles
    /\ memberRoles \cap Range(serverConfig.roles_to_remove) = {}
    /\ Len(ret.embed.roles_removed) = 2

(***************************************************************************)
(* C6  Nickname step under the roblox_username policy: a differing         *)
(* nickname becomes roblox_username once the edit is accepted and is       *)
(* reported in nickname_updated; an equal nickname causes no edit and      *)
(* nickname_updated stays None.                                            *)
(***************************************************************************)
C6_NicknameStep ==
    [][ (Configured(serverConfig) /\ serverConfig.nickname_format = "roblox_username"
           /\ ret'.success /\ ret'.has_embed)
        => LET u == SelectAccount(linkedAccounts).roblox_username
           IN /\ (memberNick # u /\ ~SomeFailed(issued', "edit", "nickname"))
                    => (memberNick' = u /\ ret'.embed.nickname_updated = u)
              /\ (memberNick = u)
                    => (/\ Issued(issued', "edit", "nickname") = {}
                        /\ memberNick' = u
                        /\ ret'.embed.nickname_updated = None) ]_vars

C6_Witness ==
    /\ Reconciled /\ serverConfig.nickname_format = "roblox_username"
    /\ SomeOk(issued, "edit", "nickname")
    /\ memberNick = "Foo123"
    /\ ret.embed.nickname_updated = "Foo123"

(***************************************************************************)
(* C7  Group lookup failure: when the group-membership request raises or   *)
(* times out, the call still returns its result and both group_roles_added *)
(* and group_roles_removed are empty, whatever roles the member heldList.      *)
(***************************************************************************)
C7_LookupFailureLeavesGroupRoles ==
    (Called /\ HasIdentity /\ GroupPolicyOn(serverConfig) /\ ~groupLookup.answered)
    => /\ Reconciled
       /\ ret.embed.group_roles_added = <<>>
       /\ ret.embed.group_roles_removed = <<>>

(***************************************************************************)
(* C8  A non-200 answer of the group lookup is treated as "not in any      *)
(* group": the default-role fallback runs, so that, every mutation being   *)
(* accepted and a default-named role existing, the member holds a          *)
(* default-named role afterwards.                                          *)
(***************************************************************************)
C8_Non200RunsFallback ==
    (/\ Reconciled
     /\ AllSucceeded(issued)
     /\ GroupPolicyOn(serverConfig)
     /\ groupLookup.answered /\ groupLookup.status # 200
     /\ DefaultRoles(serverConfig, guildRoles) # <<>>)
    => memberRoles \cap Range(DefaultRoles(serverConfig, guildRoles)) # {}

(***************************************************************************)
(* C9  Failure isolation: a rejected mutation does not keep a later one    *)
(* from being attempted.  A rejected removal of roles_to_remove is         *)
(* followed by the add of the verified role, and a rejected removal of the *)
(* mapped roles by the add of the matched role (identity in the group,     *)
(* matched role existing).                                                 *)
(***************************************************************************)
C9_FailureIsolation ==
    /\ \A i \in Issued(issued, "remove_roles", "verified") :
          ~issued[i].ok =>
             \E j \in Issued(issued, "add_roles", "verified") : j > i
    /\ \A i \in Issued(issued, "remove_roles", "group") :
          (/\ ~issued[i].ok
           /\ InTargetGroup(serverConfig, groupLookup)
           /\ MatchedRole(serverConfig, GroupRoleRows, guildRoles, groupLookup) # NoRole)
          => \E j \in Issued(issued, "add_roles", "group") : j > i

(***************************************************************************)
(* C10  Error surfacing: verify_user / update_user answer success=False    *)
(* exactly when the server is not configured or the user has no linked     *)
(* identity; with both present they answer success=True with a result,     *)
(* whatever the platform rejected and whatever the lookups did.            *)
(***************************************************************************)
C10_ErrorSurfacing ==
    Called =>
      /\ ret.success <=> (Configured(serverConfig) /\ HasIdentity)
      /\ ret.success => ret.has_embed
      /\ (ret.signal = "not_configured") <=> ~Configured(serverConfig)

\* A call that returned success although a role mutation was rejected and the
\* group lookup did not answer.
C10_Witness ==
    /\ Reconciled
    /\ ~AllSucceeded(issued)
    /\ GroupPolicyOn(serverConfig) /\ ~groupLookup.answered

(***************************************************************************)
(* The other entry points of the reconciliation: the member-join event     *)
(* (handle_member_join) and POST /bot/verify-in-server (dashboard.py).     *)
(***************************************************************************)
MaxAccountId == 3    \* account ids a request may name: the user's rows and one beyond

\* Mutant of handle_member_join: the guild's configuration is not looked at.
handle_member_join_AnyGuild(nick, roles, cfg, user, accounts, rows, guild, lookup, profile, F) ==
    LET s == Start(nick, roles)
    IN IF ~user THEN Return(FALSE, "no_return", FALSE, send_dm(s, "link", F))
       ELSE IF accounts = <<>> THEN Return(FALSE, "no_return", FALSE, send_dm(s, "link", F))
       ELSE Return(FALSE, "no_return", FALSE,
                   apply_server_config_sync_with_tracking(
                       s, cfg, SelectAccount(accounts), rows, guild, lookup, profile, F))

\* handle_member_join returns None on every path; every exception is swallowed.
handle_member_join(nick, roles, cfg, user, accounts, rows, guild, lookup, profile, F) ==
    LET s == Start(nick, roles)
    IN IF ~cfg.exists \/ ~cfg.setup_completed THEN Return(FALSE, "no_return", FALSE, s)
       ELSE IF ~user THEN Return(FALSE, "no_return", FALSE, send_dm(s, "link", F))
       ELSE IF accounts = <<>> THEN Return(FALSE, "no_return", FALSE, send_dm(s, "link", F))
       ELSE Return(FALSE, "no_return", FALSE,
                   apply_server_config_sync_with_tracking(
                       s, cfg, SelectAccount(accounts), rows, guild, lookup, profile, F))

\* The response of verify_in_server once the reconciliation has run: 500 when it
\* raised, APIResponse(success=True) otherwise.
VerifyInServerResponse(out) ==
    IF out.raised THEN Return(FALSE, "failed", FALSE, out)
    ELSE Return(TRUE, "ok", FALSE, out)

\* verify_in_server: the linked account is the caller's row whose id is
\* req.account_id (the position of the row); present: the bot is ready and the
\* guild and the member are found.  The response carries no embed_data.
verify_in_server(nick, roles, cfg, accounts, account_id, present, rows, guild, lookup, profile, F) ==
    LET s == Start(nick, roles)
    IN IF account_id \notin DOMAIN accounts THEN Return(FALSE, "account_not_found", FALSE, s)
       ELSE IF ~cfg.exists THEN Return(FALSE, "config_not_found", FALSE, s)
       ELSE IF ~present THEN Return(FALSE, "not_present", FALSE, s)
       ELSE VerifyInServerResponse(apply_server_config_sync_with_tracking(
                           s, cfg, accounts[account_id], rows, guild, lookup, profile, F))

\* on_member_join
MemberJoin ==
    \E F \in FailureSets :
        Finish(F, handle_member_join(memberNick, memberRoles, serverConfig, userRow, linkedAccounts,
                                     GroupRoleRows, guildRoles, groupLookup, profileLookup, F))

\* POST /bot/verify-in-server, by the authenticated user (who has a User row)
VerifyInServer ==
    \E F \in FailureSets, account_id \in 1..MaxAccountId, present \in BOOLEAN :
        /\ userRow
        /\ Finish(F, verify_in_server(memberNick, memberRoles, serverConfig, linkedAccounts,
                                      account_id, present, GroupRoleRows, guildRoles,
                                      groupLookup, profileLookup, F))

InitEntryPoints ==
    /\ InitEntry
    /\ ret = NoReturn
    /\ issued = <<>>
    /\ streak = 0
    /\ CacheInit /\ RateInit /\ AppInit

NextEntryPoints == VerifyUser \/ UpdateUser \/ MemberJoin \/ VerifyInServer

SpecEntryPoints == InitEntryPoints /\ [][NextEntryPoints]_vars

(***************************************************************************)
(* C11  Not-configured precondition: on every entry point, when the guild  *)
(* has no ServerConfig or its setup_completed is false, the call applies   *)
(* no nickname edit and no role change and does not answer success.        *)
(***************************************************************************)
C11_NotConfiguredNoOp ==
    (Called /\ ~Configured(serverConfig))
    => /\ Mutations(issued) = <<>>
       /\ ~ret.success

(***************************************************************************)
(* C12  Identity selection.  The account a call reconciled with shows in   *)
(* the nickname edit it issued (nickname_format is roblox_username).       *)
(***************************************************************************)
\* The call was answered by verify_in_server with success (no embed_data).
ViaHttp == ret.success /\ ~ret.has_embed
EditedNicks == {issued[i].nick : i \in Issued(issued, "edit", "nickname")}
\* The primary account: the first verified one in creation order, else the first.
Primary(accounts) ==
    IF \E i \in DOMAIN accounts : accounts[i].verified
    THEN accounts[CHOOSE i \in DOMAIN accounts :
                     /\ accounts[i].verified
                     /\ \A j \in 1..(i - 1) : ~accounts[j].verified]
    ELSE accounts[1]

NoIdentityNoMutation ==
    ~HasIdentity => (Mutations(issued) = <<>> /\ ~ret.success)

StepRank(c) ==
    CASE c.step = "nickname" -> 1
      [] c.step = "verified" -> 2
      [] c.step \in {"group", "default"} -> 3
      [] OTHER -> 4

C13_StepOrder ==
    \A i, j \in DOMAIN issued :
        i < j => /\ StepRank(issued[i]) <= StepRank(issued[j])
                 /\ ~(/\ StepRank(issued[i]) = StepRank(issued[j])
                      /\ issued[i].op = "add_roles"
                      /\ issued[j].op = "remove_roles")

\* A call that issued the edit, both calls of the verified-role step, the removal
\* and the add of the group-role step, and the DM.
C13_Witness ==
    /\ Reconciled
    /\ Issued(issued, "edit", "nickname") # {}
    /\ Issued(issued, "remove_roles", "verified") # {}
    /\ Issued(issued, "add_roles", "verified") # {}
    /\ Issued(issued, "remove_roles", "group") # {}
    /\ Issued(issued, "add_roles", "group") # {}
    /\ Issued(issued, "send", "result") # {}

(***************************************************************************)
(* C14  Missing verified role: with the verified-role policy on and a      *)
(* verified_role_id naming no role of the guild, the call returns its      *)
(* result, issues no call of the verified-role step and reports no role    *)
(* added or removed by it, and the group-role step still runs: it removes  *)
(* the heldList mapped roles and, that removal accepted, adds the matched one. *)
(***************************************************************************)
C14_MissingVerifiedRole ==
    [][ (/\ VerifiedPolicyOn(serverConfig)
         /\ serverConfig.verified_role_id \notin guildRoles
         /\ HasIdentity)
        => /\ ret'.success /\ ret'.has_embed
           /\ \A i \in DOMAIN issued' : issued'[i].step # "verified"
           /\ ret'.embed.roles_added = <<>>
           /\ ret'.embed.roles_removed = <<>>
           /\ (GroupPolicyOn(serverConfig) /\ memberRoles \cap MappedRoles # {})
                 => Issued(issued', "remove_roles", "group") # {}
           /\ (/\ GroupPolicyOn(serverConfig)
               /\ InTargetGroup(serverConfig, groupLookup)
               /\ MatchedRole(serverConfig, GroupRoleRows, guildRoles, groupLookup) # NoRole
               /\ ~SomeFailed(issued', "remove_roles", "group"))
                 => Issued(issued', "add_roles", "group") # {} ]_vars

\* The verified role is missing, the member still holds a role of roles_to_remove,
\* and the group-role step added the matched role.
C14_Witness ==
    /\ Reconciled
    /\ VerifiedPolicyOn(serverConfig)
    /\ serverConfig.verified_role_id \notin guildRoles
    /\ memberRoles \cap Range(serverConfig.roles_to_remove) # {}
    /\ SomeOk(issued, "add_roles", "group")

(***************************************************************************)
(* CacheManager (cache_manager.py).  _cache is a dict: a sequence of       *)
(* entries [key, item] in insertion order; an overwritten key keeps its    *)
(* position.  Every public operation runs under self._lock, so one         *)
(* operation is one action here; the lock itself is modelled further on.   *)
(***************************************************************************)
MaxTime == 3        \* the clock runs from 0 to MaxTime
MaxSize == 2        \* CacheManager(max_size=...)
CacheKeys == {"k1", "k2", "k3"}
CacheValues == {"a", "b"}
TTLs == {1, 2}

CacheItem(value, ttl, t) == [value |-> value, created_at |-> t, ttl |-> ttl]
\* Mutant of is_expired: an entry expires when its ttl is reached.
is_expired_AtTTL(item, t) == t - item.created_at >= item.ttl

is_expired(item, t) == t - item.created_at > item.ttl

KeysOf(c) == {c[i].key : i \in DOMAIN c}
IndexOf(c, key) == CHOOSE i \in DOMAIN c : c[i].key = key
ItemOf(c, key) == c[IndexOf(c, key)].item
Remove(c, key) == SelectSeq(c, LAMBDA e : e.key # key)

\* Mutant of cleanup_expired: the sweep drops every entry.
cleanup_expired_All(c, t) == <<>>

\* _cleanup_expired
cleanup_expired(c, t) == SelectSeq(c, LAMBDA e : ~is_expired(e.item, t))

\* min(self._cache.keys(), key=created_at): the first of the oldest, in dict order.
OldestIndex(c) ==
    CHOOSE i \in DOMAIN c :
        \A j \in DOMAIN c :
            \/ c[i].item.created_at < c[j].item.created_at
            \/ (c[i].item.created_at = c[j].item.created_at /\ i <= j)

\* Mutant of evict_if_needed: eviction starts only above max_size.
evict_if_needed_Late(c, max_size) ==
    IF Len(c) > max_size THEN Remove(c, c[OldestIndex(c)].key) ELSE c

\* _evict_if_needed
evict_if_needed(c, max_size) ==
    IF Len(c) >= max_size THEN Remove(c, c[OldestIndex(c)].key) ELSE c

Store(c, key, item) ==
    IF key \in KeysOf(c) THEN [c EXCEPT ![IndexOf(c, key)] = [key |-> key, item |-> item]]
    ELSE Append(c, [key |-> key, item |-> item])

CacheManager_set(c, key, value, ttl, t, max_size) ==
    Store(evict_if_needed(c, max_size), key, CacheItem(value, ttl, t))

CacheManager_get(c, key, t) ==
    IF key \in KeysOf(c)
    THEN IF ~is_expired(ItemOf(c, key), t)
         THEN [cache |-> c, result |-> ItemOf(c, key).value]
         ELSE [cache |-> Remove(c, key), result |-> None]
    ELSE [cache |-> c, result |-> None]

CacheManager_delete(c, key) ==
    IF key \in KeysOf(c) THEN [cache |-> Remove(c, key), result |-> "True"]
    ELSE [cache |-> c, result |-> "False"]

CacheManager_clear(c) == <<>>

\* What a completed operation reports: its answer, the keys it removed, its time.
Done(op, key, result, before, after, t) ==
    [op |-> op, key |-> key, result |-> result,
     removed |-> {before[i].key : i \in {j \in DOMAIN before : before[j] \notin Range(after)}},
     at |-> t]

OnlyCache == UNCHANGED <<reconVars, now, threadVars, rateVars, appVars>>

CacheSetKey(key) ==
    \E value \in CacheValues, ttl \in TTLs :
        /\ cache' = CacheManager_set(cache, key, value, ttl, now, MaxSize)
        /\ cacheRet' = Done("set", key, None, cache, evict_if_needed(cache, MaxSize), now)
        /\ OnlyCache
CacheSet == \E key \in CacheKeys : CacheSetKey(key)

CacheGetKey(key) ==
    LET g == CacheManager_get(cache, key, now)
    IN /\ cache' = g.cache
       /\ cacheRet' = Done("get", key, g.result, cache, g.cache, now)
       /\ OnlyCache
CacheGet == \E key \in CacheKeys : CacheGetKey(key)

CacheDelete ==
    \E key \in CacheKeys :
        LET d == CacheManager_delete(cache, key)
        IN /\ cache' = d.cache
           /\ cacheRet' = Done("delete", key, d.result, cache, d.cache, now)
           /\ OnlyCache

CacheClear ==
    /\ cache' = CacheManager_clear(cache)
    /\ cacheRet' = Done("clear", None, None, cache, <<>>, now)
    /\ OnlyCache

\* _cleanup_worker: one round of the loop, after its sleep
CleanupWorker ==
    /\ cache' = cleanup_expired(cache, now)
    /\ cacheRet' = Done("cleanup", None, None, cache, cleanup_expired(cache, now), now)
    /\ OnlyCache

\* time passes
Tick ==
    /\ now < MaxTime
    /\ now' = now + 1
    /\ UNCHANGED <<reconVars, cacheVars, threadVars, rateVars, appVars>>

\* No reconciliation is going on.
ReconIdle ==
    /\ serverConfig = NoConfig
    /\ userRow = FALSE
    /\ linkedAccounts = <<>>
    /\ guildRoles = {}
    /\ memberNick = None
    /\ memberRoles = {}
    /\ groupLookup = NoAnswer
    /\ profileLookup = NoProfile
    /\ ret = NoReturn
    /\ issued = <<>>
    /\ streak = 0

InitCache == ReconIdle /\ CacheInit /\ RateInit /\ AppInit

NextCache == CacheSet \/ CacheGet \/ CacheDelete \/ CacheClear \/ CleanupWorker \/ Tick

SpecCache == InitCache /\ [][NextCache]_vars

(***************************************************************************)
(* C15  Cache TTL: a get of a stored key answers its value as long as      *)
(* now - created_at <= ttl and None afterwards; gets, sweeps and the       *)
(* passing of time keep every entry that has not expired and change no     *)
(* entry (a get never extends a lifetime).                                 *)
(***************************************************************************)
Kept(e) == \E j \in DOMAIN cache' : cache'[j] = e

C15_CacheTTL ==
    [][ /\ \A k \in CacheKeys :
              (CacheGetKey(k) /\ k \in KeysOf(cache))
              => cacheRet'.result =
                    (IF now - ItemOf(cache, k).created_at <= ItemOf(cache, k).ttl
                     THEN ItemOf(cache, k).value ELSE None)
        /\ (CacheGet \/ CleanupWorker \/ Tick)
              => /\ \A i \in DOMAIN cache :
                       ~(now - cache[i].item.created_at > cache[i].item.ttl) => Kept(cache[i])
                 /\ Range(cache') \subseteq Range(cache) ]_vars

\* A get answered the value of an entry exactly ttl after it was stored.
C15_Witness ==
    /\ cacheRet.op = "get" /\ cacheRet.at = now
    /\ cacheRet.key \in KeysOf(cache)
    /\ now - ItemOf(cache, cacheRet.key).created_at = ItemOf(cache, cacheRet.key).ttl
    /\ cacheRet.result = ItemOf(cache, cacheRet.key).value

(***************************************************************************)
(* C16  Cache capacity and eviction: the cache never holds more than       *)
(* max_size entries, and a set of an absent key into a full cache removes  *)
(* exactly one entry, one of smallest created_at, and keeps the others.    *)
(***************************************************************************)
C16_EvictsOldest ==
    \A k \in CacheKeys :
        (CacheSetKey(k) /\ k \notin KeysOf(cache) /\ Len(cache) = MaxSize)
        => \E i \in DOMAIN cache :
              /\ \A j \in DOMAIN cache : cache[i].item.created_at <= cache[j].item.created_at
              /\ KeysOf(cache') = (KeysOf(cache) \ {cache[i].key}) \cup {k}
              /\ \A j \in DOMAIN cache \ {i} : Kept(cache[j])

C16_Capacity ==
    /\ [](Len(cache) <= MaxSize /\ Cardinality(KeysOf(cache)) = Len(cache))
    /\ [][C16_EvictsOldest]_vars

\* A set of a new key into a full cache evicted another key.
C16_Witness ==
    /\ cacheRet.op = "set"
    /\ cacheRet.removed # {} /\ cacheRet.key \notin cacheRet.removed
    /\ Len(cache) = MaxSize

(***************************************************************************)
(* C17  Expiry: a get of an expired entry removes it at once; neither a    *)
(* get nor the sweep removes an entry that has not expired; and with the   *)
(* cleanup worker scheduled fairly, expired entries do not stay in the     *)
(* store for ever.                                                         *)
(***************************************************************************)
SpecCacheFair == SpecCache /\ WF_vars(CleanupWorker)

Expired(e) == now - e.item.created_at > e.item.ttl
ExpiredStored == \E i \in DOMAIN cache : Expired(cache[i])

C17_LazyAndSweep ==
    /\ \A k \in CacheKeys :
          (CacheGetKey(k) /\ k \in KeysOf(cache) /\ Expired(cache[IndexOf(cache, k)]))
          => k \notin KeysOf(cache')
    /\ (CacheGet \/ CleanupWorker)
          => \A i \in DOMAIN cache : ~Expired(cache[i]) => Kept(cache[i])
    /\ CleanupWorker => \A j \in DOMAIN cache' : ~Expired(cache'[j])

C17_ExpirySweep ==
    /\ [][C17_LazyAndSweep]_vars
    /\ ExpiredStored ~> ~ExpiredStored

\* The sweep removed an expired entry and kept one that had not expired.
C17_Witness ==
    /\ cacheRet.op = "cleanup" /\ cacheRet.at = now
    /\ cacheRet.removed # {}
    /\ cache # <<>>

(***************************************************************************)
(* CacheManager under concurrent threads.  A thread calls an operation,    *)
(* enters "with self._lock", runs the statements of the body in steps and  *)
(* leaves the with block.  Thread fields: item is the local of get,        *)
(* keys the expired_keys of _cleanup_expired, before the store as it was   *)
(* when the lock was taken, at the time the body read the clock, raised a  *)
(* KeyError of a del statement.                                            *)
(***************************************************************************)
ThreadedMaxSize == 1       \* CacheManager(max_size=1)
ThreadKeys == {"k1", "k2"}
ThreadValue == "a"
ThreadTTL == 1
Workers == {"w1", "w2"}

\* Mutant of CanAcquire: the with block excludes nobody.
CanAcquire_Always(l, t) == TRUE

\* threading.RLock: free, or heldList by the same thread
CanAcquire(l, t) == l = None \/ l = t

\* for key in expired_keys: del self._cache[key], from position i on
RECURSIVE DeleteKeys(_, _, _)
DeleteKeys(c, keys, i) ==
    IF i > Len(keys) THEN [cache |-> c, raised |-> FALSE]
    ELSE IF keys[i] \notin KeysOf(c) THEN [cache |-> c, raised |-> TRUE]
    ELSE DeleteKeys(Remove(c, keys[i]), keys, i + 1)

ExpiredKeys(c, t) ==
    LET es == SelectSeq(c, LAMBDA e : is_expired(e.item, t))
    IN [i \in DOMAIN es |-> es[i].key]

\* One statement of the body of the operation th runs, on the store c at time t.
BodyStep(th, c, t, max_size) ==
    CASE th.op = "set" /\ th.stage = "body1" ->
            [th |-> [th EXCEPT !.stage = "body2"], cache |-> evict_if_needed(c, max_size)]
      [] th.op = "set" /\ th.stage = "body2" ->
            [th |-> [th EXCEPT !.stage = "release", !.at = t],
             cache |-> Store(c, th.key, CacheItem(th.value, th.ttl, t))]
      [] th.op = "get" /\ th.stage = "body1" ->
            [th |-> [th EXCEPT !.stage = "body2",
                               !.item = IF th.key \in KeysOf(c) THEN <<ItemOf(c, th.key)>>
                                        ELSE <<>>],
             cache |-> c]
      [] th.op = "get" /\ th.stage = "body2" ->
            IF th.item = <<>>
            THEN [th |-> [th EXCEPT !.stage = "release", !.at = t], cache |-> c]
            ELSE IF ~is_expired(th.item[1], t)
            THEN [th |-> [th EXCEPT !.stage = "release", !.at = t, !.result = th.item[1].value],
                  cache |-> c]
            ELSE IF th.key \in KeysOf(c)
            THEN [th |-> [th EXCEPT !.stage = "release", !.at = t], cache |-> Remove(c, th.key)]
            ELSE [th |-> [th EXCEPT !.stage = "release", !.at = t, !.raised = TRUE], cache |-> c]
      [] th.op = "delete" /\ th.stage = "body1" ->
            IF th.key \in KeysOf(c)
            THEN [th |-> [th EXCEPT !.stage = "body2"], cache |-> c]
            ELSE [th |-> [th EXCEPT !.stage = "release", !.result = "False"], cache |-> c]
      [] th.op = "delete" /\ th.stage = "body2" ->
            IF th.key \in KeysOf(c)
            THEN [th |-> [th EXCEPT !.stage = "release", !.result = "True"],
                  cache |-> Remove(c, th.key)]
            ELSE [th |-> [th EXCEPT !.stage = "release", !.raised = TRUE], cache |-> c]
      [] th.op = "clear" ->
            [th |-> [th EXCEPT !.stage = "release"], cache |-> <<>>]
      [] th.op = "cleanup" /\ th.stage = "body1" ->
            [th |-> [th EXCEPT !.stage = "body2", !.at = t, !.keys = ExpiredKeys(c, t)],
             cache |-> c]
      [] OTHER ->      \* cleanup, body2
            LET d == DeleteKeys(c, th.keys, 1)
            IN [th |-> [th EXCEPT !.stage = "release", !.raised = d.raised], cache |-> d.cache]

OnlyThreads == UNCHANGED <<reconVars, now, cacheRet, rateVars, appVars>>

\* A request worker calls set, get, delete or clear.
WorkerCall(t) ==
    /\ t \in Workers
    /\ threads[t].stage = "idle"
    /\ \E op \in {"set", "get", "delete", "clear"}, key \in ThreadKeys :
          threads' = [threads EXCEPT ![t] =
                         [IdleThread EXCEPT !.op = op, !.stage = "acquire",
                                            !.key = IF op = "clear" THEN None ELSE key,
                                            !.value = IF op = "set" THEN ThreadValue ELSE None,
                                            !.ttl = IF op = "set" THEN ThreadTTL ELSE 0]]
    /\ UNCHANGED <<cache, lock>>
    /\ OnlyThreads

\* _cleanup_worker wakes up and calls _cleanup_expired.
CleanupCall ==
    /\ threads["cleanup"].stage = "idle"
    /\ threads' = [threads EXCEPT !["cleanup"] =
                      [IdleThread EXCEPT !.op = "cleanup", !.stage = "acquire"]]
    /\ UNCHANGED <<cache, lock>>
    /\ OnlyThreads

\* with self._lock: enter
Acquire(t) ==
    /\ threads[t].stage = "acquire"
    /\ CanAcquire(lock, t)
    /\ lock' = t
    /\ threads' = [threads EXCEPT ![t].stage = "body1", ![t].before = cache]
    /\ UNCHANGED cache
    /\ OnlyThreads

Body(t) ==
    /\ threads[t].stage \in {"body1", "body2"}
    /\ LET b == BodyStep(threads[t], cache, now, ThreadedMaxSize)
       IN /\ threads' = [threads EXCEPT ![t] = b.th]
          /\ cache' = b.cache
    /\ UNCHANGED lock
    /\ OnlyThreads

\* with self._lock: exit, and return
Release(t) ==
    /\ threads[t].stage = "release"
    /\ lock' = IF lock = t THEN None ELSE lock
    /\ threads' = [threads EXCEPT ![t] = IdleThread]
    /\ UNCHANGED cache
    /\ OnlyThreads

NextThreads ==
    \/ \E t \in Workers : WorkerCall(t)
    \/ CleanupCall
    \/ \E t \in Threads : Acquire(t)
    \/ \E t \in Threads : Body(t)
    \/ \E t \in Threads : Release(t)
    \/ Tick

SpecCacheThreads == InitCache /\ [][NextThreads]_vars

(***************************************************************************)
(* C18  Cache thread-safety: under every interleaving the store never      *)
(* holds more than max_size entries, no del statement fails on a key       *)
(* another thread removed, the entry a get is about to answer from is      *)
(* still the stored one, and a finished operation has had the effect of    *)
(* the whole operation applied to the store as it was when it took the     *)
(* lock.                                                                   *)
(***************************************************************************)
AtomicEffect(th) ==
    CASE th.op = "set" ->
            cache = CacheManager_set(th.before, th.key, th.value, th.ttl, th.at, ThreadedMaxSize)
      [] th.op = "get" ->
            /\ cache = CacheManager_get(th.before, th.key, th.at).cache
            /\ th.result = CacheManager_get(th.before, th.key, th.at).result
      [] th.op = "delete" ->
            /\ cache = CacheManager_delete(th.before, th.key).cache
            /\ th.result = CacheManager_delete(th.before, th.key).result
      [] th.op = "clear" -> cache = CacheManager_clear(th.before)
      [] OTHER -> cache = cleanup_expired(th.before, th.at)

C18_ThreadSafety ==
    /\ Len(cache) <= ThreadedMaxSize
    /\ \A t \in Threads :
          /\ ~threads[t].raised
          /\ (threads[t].op = "get" /\ threads[t].stage = "body2" /\ threads[t].item # <<>>)
                => /\ threads[t].key \in KeysOf(cache)
                   /\ ItemOf(cache, threads[t].key) = threads[t].item[1]
          /\ threads[t].stage = "release" => AtomicEffect(threads[t])

\* A get has answered a value while a delete of the same key by the other worker
\* and the sweep are waiting for the lock.
C18_Witness ==
    /\ threads["w1"].op = "get" /\ threads["w1"].stage = "release"
    /\ threads["w1"].result = ThreadValue
    /\ threads["w2"].op = "delete" /\ threads["w2"].stage = "acquire"
    /\ threads["w2"].key = threads["w1"].key
    /\ threads["cleanup"].stage = "acquire"

(***************************************************************************)
(* DiscordCacheManager.check_rate_limit.  The callers (auth.py) pass no    *)
(* limit and no window, so every call of a run uses the same pair.         *)
(***************************************************************************)
MaxCalls == 5       \* check_rate_limit calls in one behaviour
Limits == {1, 2}
Windows == {1, 2}

\* Mutant of check_rate_limit: a denied call is recorded as well.
check_rate_limit_AlwaysAppend(requests, t, limit, window) ==
    LET pruned == SelectSeq(requests, LAMBDA r : t - r < window)
    IN [requests |-> Append(pruned, t), allowed |-> Len(pruned) < limit]

\* Mutant of check_rate_limit: one call more than limit is let through.
check_rate_limit_OneMore(requests, t, limit, window) ==
    LET pruned == SelectSeq(requests, LAMBDA r : t - r < window)
    IN IF Len(pruned) > limit THEN [requests |-> pruned, allowed |-> FALSE]
       ELSE [requests |-> Append(pruned, t), allowed |-> TRUE]

\* check_rate_limit on the endpoint's list: the list stored, and the answer.
check_rate_limit(requests, t, limit, window) ==
    LET pruned == SelectSeq(requests, LAMBDA r : t - r < window)
    IN IF Len(pruned) >= limit THEN [requests |-> pruned, allowed |-> FALSE]
       ELSE [requests |-> Append(pruned, t), allowed |-> TRUE]

CheckRateLimit ==
    \E e \in Endpoints, limit \in Limits, window \in Windows :
        /\ Len(rateLog) < MaxCalls
        /\ rateLog # <<>> => (limit = rateLog[1].limit /\ window = rateLog[1].window)
        /\ LET r == check_rate_limit(rate_limits[e], now, limit, window)
           IN /\ rate_limits' = [rate_limits EXCEPT ![e] = r.requests]
              /\ rateLog' = Append(rateLog, [endpoint |-> e, at |-> now, limit |-> limit,
                                             window |-> window, allowed |-> r.allowed])
        /\ UNCHANGED <<reconVars, now, cacheVars, threadVars, appVars>>

InitRate == ReconIdle /\ CacheInit /\ RateInit /\ AppInit

NextRate == CheckRateLimit \/ Tick

SpecRate == InitRate /\ [][NextRate]_vars

(***************************************************************************)
(* C19  Rate limiter window.  For an endpoint, with h its calls in order,  *)
(* N the limit and W the window: the first N calls, made within W of the   *)
(* first, are allowed; the (N+1)-th, still within W of the first, is       *)
(* denied; and a call made W or more after the N-th, with only denied      *)
(* calls in between, is allowed.                                           *)
(***************************************************************************)
CallsOf(e) == SelectSeq(rateLog, LAMBDA c : c.endpoint = e)

C19_Window(h) ==
    LET N == h[1].limit
        W == h[1].window
    IN /\ \A j \in DOMAIN h :
             (j <= N /\ h[j].at - h[1].at < W) => h[j].allowed
       /\ (Len(h) > N /\ h[N + 1].at - h[1].at < W) => ~h[N + 1].allowed
       /\ \A j \in DOMAIN h :
             (/\ j > N
              /\ h[N].at - h[1].at < W
              /\ \A i \in (N + 1)..(j - 1) : ~h[i].allowed
              /\ h[j].at - h[N].at >= W)
             => h[j].allowed

C19_RateLimiterWindow ==
    \A e \in Endpoints : CallsOf(e) # <<>> => C19_Window(CallsOf(e))

\* Two calls allowed, two denied at different times during the wait, then one allowed.
C19_Witness ==
    \E e \in Endpoints :
        LET h == CallsOf(e)
        IN /\ Len(h) = 5 /\ h[1].limit = 2
           /\ h[1].allowed /\ h[2].allowed
           /\ ~h[3].allowed /\ ~h[4].allowed /\ h[4].at > h[3].at
           /\ h[5].allowed

(***************************************************************************)
(* C20  Rate limiter decision rule, for the call a step makes (the last    *)
(* entry of the log): pruned is the endpoint's list without the timestamps *)
(* whose age has reached the window.                                       *)
(***************************************************************************)
IsCall == Len(rateLog') = Len(rateLog) + 1
LastCall == rateLog'[Len(rateLog')]
Pruned(c) == SelectSeq(rate_limits[c.endpoint], LAMBDA r : c.at - r < c.window)
OthersUnchanged(c) ==
    \A e \in Endpoints \ {c.endpoint} : rate_limits'[e] = rate_limits[e]

\* C20 as claimed: the call is permitted iff fewer than limit timestamps remain
\* after pruning; the call appends the current timestamp; other lists are unchanged.
C20_DecisionRule ==
    [][ IsCall =>
          /\ LastCall.allowed <=> (Len(Pruned(LastCall)) < LastCall.limit)
          /\ rate_limits'[LastCall.endpoint] = Append(Pruned(LastCall), LastCall.at)
          /\ OthersUnchanged(LastCall) ]_vars

\* C20 as amended: the timestamp is appended exactly when the call is permitted; a
\* denied call stores the pruned list.
C20_DecisionRuleAppendIfAllowed ==
    [][ IsCall =>
          /\ LastCall.allowed <=> (Len(Pruned(LastCall)) < LastCall.limit)
          /\ rate_limits'[LastCall.endpoint] =
                (IF LastCall.allowed THEN Append(Pruned(LastCall), LastCall.at)
                 ELSE Pruned(LastCall))
          /\ OthersUnchanged(LastCall) ]_vars

\* A call was denied on one endpoint whose list a pruning had shortened before,
\* while the other endpoint keeps the timestamps of its own calls.
C20_Witness ==
    /\ rateLog # <<>>
    /\ ~rateLog[Len(rateLog)].allowed
    /\ \E e \in Endpoints :
          /\ e # rateLog[Len(rateLog)].endpoint
          /\ rate_limits[e] # <<>>
    /\ \E i \in DOMAIN rateLog :
          /\ rateLog[i].endpoint = rateLog[Len(rateLog)].endpoint
          /\ rateLog[i].allowed
          /\ rateLog[i].at \notin Range(rate_limits[rateLog[i].endpoint])

(***************************************************************************)
(* check_rate_limit called by concurrent threads: every statement of the   *)
(* body is a step.  requests is the thread's local name; after             *)
(* self.rate_limits[key] = requests the stored list and the local list are *)
(* one object (aliased) until another thread stores its own list.          *)
(***************************************************************************)
MaxThreadCalls == 3     \* check_rate_limit calls completed in one behaviour

\* Mutant of RateLockFree: the with block excludes nobody.
RateLockFree_Always(l, t) == TRUE

\* threading.RLock: free, or heldList by the same thread
RateLockFree(l, t) == l = None \/ l = t

OnlyRateThreads ==
    UNCHANGED <<reconVars, now, cacheVars, threadVars, botVars, callVars, guildVars, dbVars, authVars, linkVars>>

\* The calls in flight and the calls completed.
RateCallsStarted ==
    Len(rateLog) + Cardinality({t \in Workers : rateThreads[t].stage # "idle"})

RateCall(t) ==
    /\ rateThreads[t].stage = "idle"
    /\ RateCallsStarted < MaxThreadCalls
    /\ \E e \in Endpoints, limit \in Limits, window \in Windows :
          /\ \A u \in Workers : rateThreads[u].stage # "idle" =>
                (limit = rateThreads[u].limit /\ window = rateThreads[u].window)
          /\ rateLog # <<>> => (limit = rateLog[1].limit /\ window = rateLog[1].window)
          /\ rateThreads' = [rateThreads EXCEPT ![t] =
                 [IdleRateThread EXCEPT !.stage = "acquire", !.endpoint = e,
                                        !.limit = limit, !.window = window]]
    /\ UNCHANGED <<rate_limit_lock, rateVars>>
    /\ OnlyRateThreads

\* with self.rate_limit_lock: enter
RateAcquire(t) ==
    /\ rateThreads[t].stage = "acquire"
    /\ RateLockFree(rate_limit_lock, t)
    /\ rate_limit_lock' = t
    /\ rateThreads' = [rateThreads EXCEPT ![t].stage = "time"]
    /\ UNCHANGED rateVars
    /\ OnlyRateThreads

\* current_time = time.time()
RateTime(t) ==
    /\ rateThreads[t].stage = "time"
    /\ rateThreads' = [rateThreads EXCEPT ![t].stage = "read", ![t].current_time = now]
    /\ UNCHANGED <<rate_limit_lock, rateVars>>
    /\ OnlyRateThreads

\* requests = self.rate_limits[key]
RateRead(t) ==
    /\ rateThreads[t].stage = "read"
    /\ rateThreads' = [rateThreads EXCEPT ![t].stage = "prune",
                                          ![t].requests = rate_limits[rateThreads[t].endpoint]]
    /\ UNCHANGED <<rate_limit_lock, rateVars>>
    /\ OnlyRateThreads

\* requests = [req_time for req_time in requests if current_time - req_time < window]
RatePrune(t) ==
    /\ rateThreads[t].stage = "prune"
    /\ rateThreads' = [rateThreads EXCEPT
          ![t].stage = "store",
          ![t].requests = SelectSeq(rateThreads[t].requests,
                              LAMBDA r : rateThreads[t].current_time - r < rateThreads[t].window)]
    /\ UNCHANGED <<rate_limit_lock, rateVars>>
    /\ OnlyRateThreads

\* self.rate_limits[key] = requests
RateStore(t) ==
    /\ rateThreads[t].stage = "store"
    /\ rate_limits' = [rate_limits EXCEPT ![rateThreads[t].endpoint] = rateThreads[t].requests]
    /\ rateThreads' = [u \in Workers |->
          IF u = t THEN [rateThreads[t] EXCEPT !.stage = "check", !.aliased = TRUE]
          ELSE IF rateThreads[u].endpoint = rateThreads[t].endpoint
               THEN [rateThreads[u] EXCEPT !.aliased = FALSE]
               ELSE rateThreads[u]]
    /\ UNCHANGED <<rate_limit_lock, rateLog>>
    /\ OnlyRateThreads

\* if len(requests) >= limit: return False
RateCheck(t) ==
    /\ rateThreads[t].stage = "check"
    /\ rateThreads' = [rateThreads EXCEPT
          ![t].stage = IF Len(rateThreads[t].requests) >= rateThreads[t].limit
                       THEN "release" ELSE "append",
          ![t].allowed = FALSE]
    /\ UNCHANGED <<rate_limit_lock, rateVars>>
    /\ OnlyRateThreads

\* requests.append(current_time); return True
RateAppend(t) ==
    /\ rateThreads[t].stage = "append"
    /\ rateThreads' = [rateThreads EXCEPT
          ![t].stage = "release",
          ![t].requests = Append(rateThreads[t].requests, rateThreads[t].current_time),
          ![t].allowed = TRUE]
    /\ rate_limits' = IF rateThreads[t].aliased
                      THEN [rate_limits EXCEPT ![rateThreads[t].endpoint] =
                               Append(rate_limits[rateThreads[t].endpoint],
                                      rateThreads[t].current_time)]
                      ELSE rate_limits
    /\ UNCHANGED <<rate_limit_lock, rateLog>>
    /\ OnlyRateThreads

\* with self.rate_limit_lock: exit; the caller has the answer
RateRelease(t) ==
    /\ rateThreads[t].stage = "release"
    /\ rate_limit_lock' = IF rate_limit_lock = t THEN None ELSE rate_limit_lock
    /\ rateLog' = Append(rateLog, [endpoint |-> rateThreads[t].endpoint,
                                   at |-> rateThreads[t].current_time,
                                   limit |-> rateThreads[t].limit,
                                   window |-> rateThreads[t].window,
                                   allowed |-> rateThreads[t].allowed])
    /\ rateThreads' = [rateThreads EXCEPT ![t] = IdleRateThread]
    /\ UNCHANGED rate_limits
    /\ OnlyRateThreads

NextRateThreads ==
    \/ \E t \in Workers : RateCall(t)
    \/ \E t \in Workers : RateAcquire(t)
    \/ \E t \in Workers : RateTime(t)
    \/ \E t \in Workers : RateRead(t)
    \/ \E t \in Workers : RatePrune(t)
    \/ \E t \in Workers : RateStore(t)
    \/ \E t \in Workers : RateCheck(t)
    \/ \E t \in Workers : RateAppend(t)
    \/ \E t \in Workers : RateRelease(t)
    \/ Tick

SpecRateThreads == InitRate /\ [][NextRateThreads]_vars

(***************************************************************************)
(* C21  Rate limiter under concurrency: for every endpoint and every       *)
(* allowed call, the allowed calls of that endpoint whose timestamps lie   *)
(* in the window of length window that ends at that call's timestamp are   *)
(* at most limit; calls that returned and calls that have taken their slot *)
(* and are about to return count alike.                                    *)
(***************************************************************************)
\* The allowed calls of endpoint e: entries of the log, and threads about to return.
AllowedLogged(e) == {i \in DOMAIN rateLog : rateLog[i].endpoint = e /\ rateLog[i].allowed}
AllowedReturning(e) ==
    {t \in Workers : /\ rateThreads[t].endpoint = e
                     /\ rateThreads[t].stage = "release"
                     /\ rateThreads[t].allowed}
AllowedTimes(e) ==
    {rateLog[i].at : i \in AllowedLogged(e)}
    \cup {rateThreads[t].current_time : t \in AllowedReturning(e)}

\* The allowed calls of e stamped in the window of length w that ends at time c.
AllowedInWindow(e, c, w) ==
    Cardinality({i \in AllowedLogged(e) : rateLog[i].at <= c /\ c - rateLog[i].at < w})
    + Cardinality({t \in AllowedReturning(e) :
                      /\ rateThreads[t].current_time <= c
                      /\ c - rateThreads[t].current_time < w})

RateParams ==
    IF rateLog # <<>> THEN <<rateLog[1].limit, rateLog[1].window>>
    ELSE IF \E t \in Workers : rateThreads[t].stage # "idle"
    THEN LET t == CHOOSE u \in Workers : rateThreads[u].stage # "idle"
         IN <<rateThreads[t].limit, rateThreads[t].window>>
    ELSE <<1, 1>>

C21_RateLimiterConcurrency ==
    \A e \in Endpoints : \A c \in AllowedTimes(e) :
        AllowedInWindow(e, c, RateParams[2]) <= RateParams[1]

\* Both threads called for one endpoint with one slot free; one has taken it and
\* is about to return, the other waits for the lock; or the other was denied.
C21_Witness ==
    /\ rateThreads["w1"].stage = "release" /\ rateThreads["w1"].allowed
    /\ rateThreads["w2"].stage = "acquire"
    /\ rateThreads["w2"].endpoint = rateThreads["w1"].endpoint
    /\ Len(rate_limits[rateThreads["w1"].endpoint]) = rateThreads["w1"].limit

(***************************************************************************)
(* Where the platform calls run.  Every call of the reconciliation goes    *)
(* through safe_discord_operation, which hands the coroutine to            *)
(* run_in_bot_loop.  The bot's loop runs in bot_thread until bot.run()     *)
(* returns or raises (run_bot swallows the exception); nothing resets      *)
(* bot_ready or _bot_loop then.                                            *)
(***************************************************************************)
\* run_in_bot_loop: the loop that executes the coroutine.  Submitted to the bot's
\* loop and awaited when that loop is set, running, and not the caller's;
\* otherwise awaited directly on the caller's loop.
run_in_bot_loop(caller, loop, running) ==
    IF loop # None /\ running
    THEN IF caller = loop THEN caller ELSE loop
    ELSE caller

\* The call has returned; caller is the loop the reconciliation was started on.
FinishOn(F, out, caller) ==
    /\ FinishRecon(F, out)
    /\ issuedOn' = [i \in DOMAIN out.s.log |->
                       run_in_bot_loop(caller, bot_loop, bot_thread = "running")]
    /\ UNCHANGED <<rateThreadVars, botVars, interaction, guildVars, dbVars, authVars, linkVars>>

\* on_ready
\* self.bot_guilds = <new list>: the list a caller holds is no longer the provider's.
Rebound == [heldList EXCEPT !.aliased = FALSE]

OnReady ==
    /\ bot_thread = "running"
    /\ bot_ready' = TRUE
    /\ bot_guilds' = clientGuilds
    /\ bot_user' = BotUser
    /\ bot_loop' = BotLoop
    /\ heldList' = Rebound
    /\ UNCHANGED <<bot_thread, callVars, rateThreadVars, clientGuilds, guildRet, dbVars, authVars, linkVars>>
    /\ UNCHANGED <<reconVars, now, cacheVars, threadVars, rateVars>>

\* run_bot: bot.run() has returned or raised
RunBotEnds ==
    /\ bot_thread = "running"
    /\ bot_thread' = "ended"
    /\ UNCHANGED <<bot_ready, bot_loop, callVars, rateThreadVars, guildVars, dbVars, authVars, linkVars>>
    /\ UNCHANGED <<reconVars, now, cacheVars, threadVars, rateVars>>

\* POST /bot/verify-in-server on the HTTP server's loop; found: the guild is in
\* bot_guilds and the member in the guild's member cache.
VerifyInServerHttp ==
    \E F \in FailureSets, account_id \in 1..MaxAccountId, found \in BOOLEAN :
        /\ userRow
        /\ FinishOn(F, verify_in_server(memberNick, memberRoles, serverConfig, linkedAccounts,
                                        account_id, bot_ready /\ found, GroupRoleRows,
                                        guildRoles, groupLookup, profileLookup, F),
                    HttpLoop)

\* on_member_join, dispatched on the bot's loop
MemberJoinOnLoop ==
    \E F \in FailureSets :
        /\ bot_thread = "running"
        /\ FinishOn(F, handle_member_join(memberNick, memberRoles, serverConfig, userRow,
                                          linkedAccounts, GroupRoleRows, guildRoles,
                                          groupLookup, profileLookup, F),
                    BotLoop)

\* Every role policy, all roles existing in the guild.
InitMarshal ==
    /\ InitRoles
    /\ guildRoles = RoleIds
    /\ ret = NoReturn
    /\ issued = <<>>
    /\ streak = 0
    /\ CacheInit /\ RateInit /\ AppInit

NextMarshal == OnReady \/ RunBotEnds \/ VerifyInServerHttp \/ MemberJoinOnLoop

SpecMarshal == InitMarshal /\ [][NextMarshal]_vars

(***************************************************************************)
(* C22  Mutation marshalling: every role or nickname mutation issued by a  *)
(* reconciliation that verify_in_server started on the HTTP server's loop  *)
(* was executed on the bot's loop.                                         *)
(***************************************************************************)
\* The last call was answered by verify_in_server after its reconciliation ran.
HttpReconciled == ret.signal \in {"ok", "failed"}

C22_MutationMarshalling ==
    HttpReconciled =>
       \A i \in DOMAIN issued : issued[i].op # "send" => issuedOn[i] = BotLoop

(***************************************************************************)
(* The guild snapshot of BotManager.  A guild event is one step: the       *)
(* client updates self.bot.guilds and the handler rebinds bot_guilds under *)
(* the lock.  Each reader is one with-block.  The caller of get_guilds     *)
(* holds the list it got and may change it in place.                       *)
(***************************************************************************)
ForeignGuild == 9       \* a guild id a caller puts into the list it holds

\* Mutant of get_guilds: the provider's own list is handed out.
get_guilds_NoCopy(ready, guilds) ==
    [list |-> IF ready THEN guilds ELSE <<>>, aliased |-> ready]

\* get_guilds: self.bot_guilds.copy() if self.bot_ready else []
get_guilds(ready, guilds) ==
    [list |-> IF ready THEN guilds ELSE <<>>, aliased |-> FALSE]

\* get_guild: the first guild of bot_guilds with that id; its id stands for it.
get_guild(ready, guilds, guild_id) ==
    IF ~ready THEN 0
    ELSE IF \E i \in DOMAIN guilds : guilds[i] = guild_id THEN guild_id
    ELSE 0

\* get_user
get_user(ready, user) == IF ready THEN user ELSE None

OnlyGuilds ==
    /\ UNCHANGED <<reconVars, now, cacheVars, threadVars, rateVars>>
    /\ UNCHANGED <<rateThreadVars, callVars, bot_thread, bot_loop, authVars, linkVars>>

\* on_guild_join(g)
OnGuildJoin(g) ==
    /\ bot_thread = "running"
    /\ g \notin Range(clientGuilds)
    /\ clientGuilds' = Append(clientGuilds, g)
    /\ bot_guilds' = clientGuilds'
    /\ heldList' = Rebound
    /\ UNCHANGED <<bot_ready, bot_user, guildRet>>
    /\ UNCHANGED dbVars
    /\ OnlyGuilds

\* Mutant of cleanup_server_config: the GroupRole rows are left behind.
cleanup_server_config_KeepsMappings(cfgs, rows, servers, bots, g) ==
    [serverConfigs |-> [cfgs EXCEPT ![g] = NoRow],
     groupRoles |-> rows,
     userServers |-> {r \in servers : r[2] # g},
     botServers |-> bots \ {g}]

\* cleanup_server_config(guild_id): the guild's GroupRole rows, its ServerConfig
\* row, the UserServer rows of the guild and its BotServer row are deleted.
cleanup_server_config(cfgs, rows, servers, bots, g) ==
    [serverConfigs |-> [cfgs EXCEPT ![g] = NoRow],
     groupRoles |-> SelectSeq(rows, LAMBDA r : ~(cfgs[g].exists /\ r.server = g)),
     userServers |-> {r \in servers : r[2] # g},
     botServers |-> bots \ {g}]

\* on_guild_remove(g): the with block, then cleanup_server_config(g.id)
OnGuildRemove(g) ==
    /\ bot_thread = "running"
    /\ g \in Range(clientGuilds)
    /\ clientGuilds' = SelectSeq(clientGuilds, LAMBDA x : x # g)
    /\ bot_guilds' = clientGuilds'
    /\ heldList' = Rebound
    /\ serverConfigs' =
          cleanup_server_config(serverConfigs, groupRoles, userServers, botServers, g).serverConfigs
    /\ groupRoles' =
          cleanup_server_config(serverConfigs, groupRoles, userServers, botServers, g).groupRoles
    /\ userServers' =
          cleanup_server_config(serverConfigs, groupRoles, userServers, botServers, g).userServers
    /\ botServers' =
          cleanup_server_config(serverConfigs, groupRoles, userServers, botServers, g).botServers
    /\ dbRet' = [op |-> "guild_remove", user |-> None, guild |-> g,
                 found |-> serverConfigs[g].exists]
    /\ UNCHANGED <<users, linked, dependents>>
    /\ UNCHANGED <<bot_ready, bot_user, guildRet>>
    /\ OnlyGuilds

\* on_ready, in the guild snapshot's specification
GuildsReady == OnReady

GetGuilds ==
    /\ heldList' = [taken |-> TRUE,
                list |-> get_guilds(bot_ready, bot_guilds).list,
                aliased |-> get_guilds(bot_ready, bot_guilds).aliased]
    /\ guildRet' = [op |-> "get_guilds", arg |-> 0,
                    result |-> get_guilds(bot_ready, bot_guilds).list, ready |-> bot_ready]
    /\ UNCHANGED <<clientGuilds, bot_guilds, bot_user, bot_ready>>
    /\ UNCHANGED dbVars
    /\ OnlyGuilds

GetGuild(g) ==
    /\ guildRet' = [op |-> "get_guild", arg |-> g,
                    result |-> get_guild(bot_ready, bot_guilds, g), ready |-> bot_ready]
    /\ UNCHANGED <<clientGuilds, bot_guilds, bot_user, bot_ready, heldList>>
    /\ UNCHANGED dbVars
    /\ OnlyGuilds

GetUser ==
    /\ guildRet' = [op |-> "get_user", arg |-> 0,
                    result |-> get_user(bot_ready, bot_user), ready |-> bot_ready]
    /\ UNCHANGED <<clientGuilds, bot_guilds, bot_user, bot_ready, heldList>>
    /\ UNCHANGED dbVars
    /\ OnlyGuilds

\* The caller changes the list it holds in place: list.append / del list[0].
\* A list that is the provider's own object changes for the provider as well.
Mutated(l, how) == IF how = "append" THEN Append(l, ForeignGuild) ELSE Tail(l)

CallerMutates ==
    \E how \in {"append", "del"} :
        /\ heldList.taken
        /\ how = "append" => ForeignGuild \notin Range(heldList.list)
        /\ how = "del" => heldList.list # <<>>
        /\ heldList' = [heldList EXCEPT !.list = Mutated(heldList.list, how)]
        /\ bot_guilds' = IF heldList.aliased THEN Mutated(bot_guilds, how) ELSE bot_guilds
        /\ UNCHANGED <<clientGuilds, bot_user, bot_ready, guildRet>>
        /\ UNCHANGED dbVars
        /\ OnlyGuilds

GuildEvent == \E g \in GuildIds : OnGuildJoin(g) \/ OnGuildRemove(g)

NextGuilds ==
    \/ GuildsReady
    \/ \E g \in GuildIds : OnGuildJoin(g)
    \/ \E g \in GuildIds : OnGuildRemove(g)
    \/ GetGuilds
    \/ \E g \in GuildIds : GetGuild(g)
    \/ GetUser
    \/ CallerMutates

SpecGuilds == InitCache /\ [][NextGuilds]_vars

(***************************************************************************)
(* C23  Guild snapshot: a caller changing the list it got never changes    *)
(* bot_guilds; on_ready, on_guild_join and on_guild_remove never change a  *)
(* list already returned; before the bot is ready get_guilds answers the   *)
(* empty list and get_guild and get_user answer None; after                *)
(* on_guild_remove(g) the guild g is not in bot_guilds, and get_guild      *)
(* answers a guild only if it is in bot_guilds.                            *)
(***************************************************************************)
C23_GuildSnapshot ==
    [][ /\ CallerMutates => bot_guilds' = bot_guilds
        /\ (GuildsReady \/ GuildEvent) => heldList'.list = heldList.list
        /\ (guildRet' # guildRet /\ ~bot_ready) =>
              CASE guildRet'.op = "get_guilds" -> guildRet'.result = <<>>
                [] guildRet'.op = "get_guild" -> guildRet'.result = 0
                [] OTHER -> guildRet'.result = None
        /\ \A g \in GuildIds :
              /\ OnGuildRemove(g) => g \notin Range(bot_guilds')
              /\ GetGuild(g) =>
                    (guildRet'.result = IF bot_ready /\ g \in Range(bot_guilds) THEN g ELSE 0)
      ]_vars

\* A caller holds a list it changed, the provider has rebound its own list
\* since, and guild 1, removed meanwhile, was looked up and not found.
C23_Witness ==
    /\ bot_ready
    /\ heldList.taken /\ ForeignGuild \in Range(heldList.list) /\ 1 \in Range(heldList.list)
    /\ 1 \notin Range(bot_guilds) /\ 2 \in Range(bot_guilds)
    /\ guildRet.op = "get_guild" /\ guildRet.arg = 1 /\ guildRet.result = 0 /\ guildRet.ready

(***************************************************************************)
(* C24  Member-joined dispatch, for every step that handle_member_join     *)
(* takes (the only handler that returns nothing): in a configured guild    *)
(* with a linked identity the calls issued and the member's new nickname   *)
(* and roles are those of one reconciliation with the primary account; in  *)
(* a configured guild without user record or identity the only call is the *)
(* link DM and the member is unchanged; in a guild that is not configured  *)
(* no call is issued.  Whatever call the platform rejected, the handler    *)
(* returned normally.                                                      *)
(***************************************************************************)
OneReconciliation(F) ==
    apply_server_config_sync_with_tracking(
        Start(memberNick, memberRoles), serverConfig, Primary(linkedAccounts),
        GroupRoleRows, guildRoles, groupLookup, profileLookup, F)

C24_MemberJoinDispatch ==
    [][ MemberJoin =>
          /\ ret'.signal = "no_return"
          /\ (Configured(serverConfig) /\ HasIdentity) =>
                \E F \in FailureSets :
                    /\ issued' = OneReconciliation(F).log
                    /\ memberNick' = OneReconciliation(F).nick
                    /\ memberRoles' = OneReconciliation(F).roles
          /\ (Configured(serverConfig) /\ ~HasIdentity) =>
                /\ Len(issued') = 1
                /\ issued'[1].op = "send" /\ issued'[1].step = "link"
                /\ memberNick' = memberNick /\ memberRoles' = memberRoles
          /\ ~Configured(serverConfig) =>
                /\ issued' = <<>>
                /\ memberNick' = memberNick /\ memberRoles' = memberRoles
      ]_vars

\* A member joined, was reconciled (verified role granted), and the DM that
\* closes the reconciliation was rejected by the platform.
C24_Witness ==
    /\ ret.signal = "no_return"
    /\ SomeOk(issued, "add_roles", "verified")
    /\ \E i \in DOMAIN issued : issued[i].op = "send" /\ ~issued[i].ok

(***************************************************************************)
(* handle_member_remove, called by on_member_remove(member) and by         *)
(* on_member_ban(guild, user).  The session has autoflush=False            *)
(* (database.py SessionLocal): a row passed to db.delete is deleted at     *)
(* commit and is still found by the queries before it.  on_member_ban      *)
(* hands over its user argument, a Member when the member cache still has  *)
(* the user and a plain User otherwise; a User has no guild attribute, so  *)
(* reading member.guild raises, the handler rolls back and swallows it.    *)
(* Deleting a User row that still has UserSession or VerificationServer    *)
(* rows fails at commit (user_id is NOT NULL), which rolls back as well.   *)
(***************************************************************************)
Db(us, servers) == [users |-> us, userServers |-> servers]

handle_member_remove(us, lk, deps, servers, u, g, is_member) ==
    IF u \notin us THEN Db(us, servers)                  \* no User row: nothing to do
    ELSE IF ~is_member THEN Db(us, servers)              \* member.guild raises
    ELSE LET user_server == {r \in servers : r = <<u, g>>}
             linked_accounts == u \in lk
             remaining_servers == {r \in servers : r[1] = u}
             delete_user == ~linked_accounts /\ remaining_servers = {}
         IN IF delete_user /\ u \in deps THEN Db(us, servers)         \* commit fails
            ELSE Db(IF delete_user THEN us \ {u} ELSE us, servers \ user_server)

\* What no database or login operation touches.
OutsideDb ==
    /\ UNCHANGED <<reconVars, now, threadVars, rateVars>>
    /\ UNCHANGED <<rateThreadVars, botVars, callVars, guildVars, linkReqs>>

OnlyDb ==
    /\ OutsideDb
    /\ UNCHANGED <<cacheVars, authVars, linkedRows>>

\* on_member_remove / on_member_ban for user u in guild g
MemberRemoved(u, g, kind, is_member) ==
    /\ kind = "remove" => is_member
    /\ users' = handle_member_remove(users, linked, dependents, userServers, u, g, is_member).users
    /\ userServers' =
          handle_member_remove(users, linked, dependents, userServers, u, g, is_member).userServers
    /\ linked' = linked \cap users'
    /\ dependents' = dependents \cap users'
    /\ dbRet' = [op |-> kind, user |-> u, guild |-> g, found |-> <<u, g>> \in userServers]
    /\ UNCHANGED <<serverConfigs, groupRoles, botServers>>
    /\ OnlyDb

MemberLeft ==
    \E u \in UserIds, g \in GuildIds : MemberRemoved(u, g, "remove", TRUE)

MemberBanned ==
    \E u \in UserIds, g \in GuildIds, is_member \in BOOLEAN : MemberRemoved(u, g, "ban", is_member)

\* A login creates the User row and a session and syncs the user's guilds
\* (auth.py authenticate_user, sync_user_servers); an account is linked or unlinked.
\* _get_user_key
UserKey(u) == IF u = "u1" THEN "user_u1" ELSE "user_u2"

\* discord_tokens.clear()
clear_tokens(tokens) == [v \in DOMAIN tokens |-> "absent"]

\* authenticate_user of u, whose code the token endpoint accepted: the token
\* store and the caches are cleared, the User row is fetched or created, the
\* token and the user data are stored, the guilds are synced, a session is made.
Login(u, gs) ==
    /\ discord_tokens' = [clear_tokens(discord_tokens) EXCEPT ![u] = "valid"]
    /\ cache' = CacheManager_set(CacheManager_clear(cache), UserKey(u), "a", 2, now, MaxSize)
    /\ cacheRet' = Done("set", UserKey(u), None, cache, cache', now)
    /\ users' = users \cup {u}
    /\ dependents' = dependents \cup {u}
    /\ sessions' = sessions \cup {u}
    /\ userServers' = {r \in userServers : r[1] # u} \cup {<<u, g>> : g \in gs}
    /\ dbRet' = [op |-> "login", user |-> u, guild |-> 0, found |-> u \in users]
    /\ authRet' = [op |-> "login", user |-> u, ok |-> TRUE]
    /\ UNCHANGED <<linked, linkedRows, serverConfigs, groupRoles, botServers>>
    /\ OutsideDb

UserLogsIn == \E u \in UserIds, gs \in SUBSET GuildIds : Login(u, gs)

\* The user's sessions expire and are deleted, or the accounts are linked / unlinked.
UserRowsChange ==
    \E u \in users, what \in {"sessions_gone", "link", "unlink"} :
        /\ dependents' = IF what = "sessions_gone" THEN dependents \ {u} ELSE dependents
        /\ sessions' = IF what = "sessions_gone" THEN sessions \ {u} ELSE sessions
        /\ linked' = CASE what = "link" -> linked \cup {u}
                       [] what = "unlink" -> linked \ {u}
                       [] OTHER -> linked
        /\ linkedRows' = CASE what = "link" /\ u \notin linked ->
                                  Append(linkedRows, LinkedAccountRow(u, RobloxOf(u)))
                           [] what = "unlink" -> SelectSeq(linkedRows, LAMBDA r : r.user # u)
                           [] OTHER -> linkedRows
        /\ <<dependents', linked'>> # <<dependents, linked>>
        /\ dbRet' = [op |-> what, user |-> u, guild |-> 0, found |-> TRUE]
        /\ UNCHANGED <<users, userServers, serverConfigs, groupRoles, botServers>>
        /\ UNCHANGED <<cacheVars, discord_tokens, authRet>>
        /\ OutsideDb

InitMembers == InitCache

NextMembers == MemberLeft \/ MemberBanned \/ UserLogsIn \/ UserRowsChange

SpecMembers == InitMembers /\ [][NextMembers]_vars

(***************************************************************************)
(* C25  Member-left cleanup: after a member-left or member-banned event    *)
(* for a user that has a User row, no UserServer row of that user for that *)
(* guild exists, and every other UserServer row is as before.              *)
(***************************************************************************)
C25_MemberLeftCleanup ==
    [][ \A u \in UserIds, g \in GuildIds :
          ((\E kind \in {"remove", "ban"}, is_member \in BOOLEAN :
               MemberRemoved(u, g, kind, is_member)) /\ u \in users)
          => /\ <<u, g>> \notin userServers'
             /\ userServers' \ {<<u, g>>} = userServers \ {<<u, g>>}
      ]_vars

(***************************************************************************)
(* C26  Orphaned-user garbage collection: after a member-left event, a     *)
(* user without linked identity whose removed membership was the last one  *)
(* has no User row any more; a user with a linked identity or with a       *)
(* membership in another guild keeps the User row.                         *)
(***************************************************************************)
C26_OrphanedUserCollected ==
    [][ \A u \in users, g \in GuildIds :
          MemberRemoved(u, g, "remove", TRUE)
          => /\ (u \notin linked /\ {r \in userServers : r[1] = u} = {<<u, g>>})
                   => u \notin users'
             /\ (u \in linked \/ \E r \in userServers : r[1] = u /\ r[2] # g)
                   => u \in users'
      ]_vars

(***************************************************************************)
(* The configuration rows of a guild: setup_nickname_format creates the    *)
(* ServerConfig row, setup_group_config / edit_group_config store the      *)
(* group and its GroupRole rows, reset_server_config deletes both.  Every  *)
(* route first requires a UserServer row of the caller for the guild.      *)
(* lookup_ok: get_roblox_group_info answered (otherwise HTTP 400 before    *)
(* anything is changed).                                                   *)
(***************************************************************************)
MaxGroupRoleRows == 4      \* GroupRole rows in the table

\* The roles of the Roblox groups, as groups.roblox.com lists them.
GroupCatalog ==
    [G1 |-> <<[id |-> 12, rank |-> 0], [id |-> 11, rank |-> 1], [id |-> 10, rank |-> 255]>>,
     G2 |-> <<[id |-> 20, rank |-> 5], [id |-> 21, rank |-> 0]>>]
GroupChoices == {TargetGroup, OtherGroup}

\* sort(key=rank, reverse=True) of a list without equal ranks
RECURSIVE SortByRankDesc(_)
SortByRankDesc(roles) ==
    IF roles = <<>> THEN <<>>
    ELSE LET top == CHOOSE i \in DOMAIN roles : \A j \in DOMAIN roles : roles[j].rank <= roles[i].rank
         IN <<roles[top]>> \o SortByRankDesc(SelectSeq(roles, LAMBDA r : r # roles[top]))

\* filtered_roles: rank > 0, highest rank first
filtered_roles(group) ==
    SortByRankDesc(SelectSeq(GroupCatalog[group], LAMBDA r : r.rank > 0))

\* The GroupRole rows created for the guild's config from the filtered roles.
NewGroupRoles(g, group) ==
    [i \in DOMAIN filtered_roles(group) |->
        [server |-> g, roblox_role_id |-> filtered_roles(group)[i].id,
         rank |-> filtered_roles(group)[i].rank]]

RowsOf(rows, g) == SelectSeq(rows, LAMBDA r : r.server = g)
RowsNotOf(rows, g) == SelectSeq(rows, LAMBDA r : r.server # g)

HasAccess(u, g) == u \in users /\ <<u, g>> \in userServers

OnlyConfigs ==
    /\ UNCHANGED <<users, linked, dependents, userServers, botServers>>
    /\ OnlyDb

\* POST /{server_id}/setup/nickname
SetupNickname(u, g) ==
    /\ HasAccess(u, g)
    /\ serverConfigs' = [serverConfigs EXCEPT ![g] =
          [@ EXCEPT !.exists = TRUE, !.setup_step = "verified_role"]]
    /\ dbRet' = [op |-> "setup_nickname", user |-> u, guild |-> g,
                 found |-> serverConfigs[g].exists]
    /\ UNCHANGED groupRoles
    /\ OnlyConfigs

\* POST /{server_id}/setup/verified-role
SetupVerifiedRole(u, g) ==
    /\ HasAccess(u, g)
    /\ serverConfigs[g].exists
    /\ serverConfigs' = [serverConfigs EXCEPT ![g] = [@ EXCEPT !.setup_step = "group"]]
    /\ dbRet' = [op |-> "setup_verified_role", user |-> u, guild |-> g, found |-> TRUE]
    /\ UNCHANGED groupRoles
    /\ OnlyConfigs

\* PUT /{server_id}/edit/nickname and PUT /{server_id}/edit/verified-role: the
\* policy fields are stored, the setup fields are not written.
EditPolicy(u, g, what) ==
    /\ HasAccess(u, g)
    /\ serverConfigs[g].exists
    /\ dbRet' = [op |-> what, user |-> u, guild |-> g, found |-> TRUE]
    /\ UNCHANGED <<serverConfigs, groupRoles>>
    /\ OnlyConfigs

\* POST /{server_id}/setup/group
SetupGroup(u, g, skip, group, lookup_ok) ==
    /\ HasAccess(u, g)
    /\ serverConfigs[g].exists
    /\ skip \/ lookup_ok
    /\ ~skip => Len(groupRoles) + Len(NewGroupRoles(g, group)) <= MaxGroupRoleRows
    /\ serverConfigs' = [serverConfigs EXCEPT ![g] =
          IF skip THEN [@ EXCEPT !.group_roles_enabled = FALSE, !.setup_step = "completed",
                                 !.setup_completed = TRUE]
          ELSE [@ EXCEPT !.group_id = group, !.group_roles_enabled = TRUE,
                         !.setup_completed = TRUE, !.setup_step = "completed"]]
    /\ groupRoles' = IF skip THEN groupRoles ELSE groupRoles \o NewGroupRoles(g, group)
    /\ dbRet' = [op |-> "setup_group", user |-> u, guild |-> g, found |-> TRUE]
    /\ OnlyConfigs

\* PUT /{server_id}/edit/group
EditGroup(u, g, skip, group, lookup_ok) ==
    /\ HasAccess(u, g)
    /\ serverConfigs[g].exists
    /\ skip \/ lookup_ok
    /\ ~skip => Len(RowsNotOf(groupRoles, g)) + Len(NewGroupRoles(g, group)) <= MaxGroupRoleRows
    /\ serverConfigs' = [serverConfigs EXCEPT ![g] =
          IF skip THEN [@ EXCEPT !.group_roles_enabled = FALSE, !.group_id = None]
          ELSE [@ EXCEPT !.group_id = group, !.group_roles_enabled = TRUE,
                         !.setup_completed = TRUE, !.setup_step = "completed"]]
    /\ groupRoles' = IF skip THEN RowsNotOf(groupRoles, g)
                     ELSE RowsNotOf(groupRoles, g) \o NewGroupRoles(g, group)
    /\ dbRet' = [op |-> "edit_group", user |-> u, guild |-> g, found |-> TRUE]
    /\ OnlyConfigs

\* A group request whose group lookup failed: HTTP 400, nothing stored.
GroupLookupFails(u, g) ==
    /\ HasAccess(u, g)
    /\ serverConfigs[g].exists
    /\ dbRet' = [op |-> "group_lookup_failed", user |-> u, guild |-> g, found |-> TRUE]
    /\ UNCHANGED <<serverConfigs, groupRoles>>
    /\ OnlyConfigs

\* DELETE /{server_id}/config
ResetConfig(u, g) ==
    /\ HasAccess(u, g)
    /\ serverConfigs[g].exists
    /\ serverConfigs' = [serverConfigs EXCEPT ![g] = NoRow]
    /\ groupRoles' = RowsNotOf(groupRoles, g)
    /\ dbRet' = [op |-> "reset", user |-> u, guild |-> g, found |-> TRUE]
    /\ OnlyConfigs

\* u1 manages both guilds and u2 guild 2; the client is in both, and both have
\* their BotServer row.
InitConfigs ==
    /\ ReconIdle /\ CacheInit /\ RateInit
    /\ RateThreadInit /\ BotInit
    /\ clientGuilds = <<1, 2>>
    /\ bot_guilds = <<>>
    /\ bot_user = None
    /\ heldList = NothingHeld
    /\ guildRet = NoGuildCall
    /\ users = UserIds
    /\ linked = {}
    /\ dependents = UserIds
    /\ userServers = {<<"u1", 1>>, <<"u1", 2>>, <<"u2", 2>>}
    /\ serverConfigs = [g \in GuildIds |-> NoRow]
    /\ groupRoles = <<>>
    /\ botServers = GuildIds
    /\ dbRet = NoDbOp
    /\ AuthInit
    /\ LinkInit

NextConfigs ==
    \/ \E g \in GuildIds : OnGuildRemove(g)
    \/ \E u \in UserIds, g \in GuildIds : SetupNickname(u, g)
    \/ \E u \in UserIds, g \in GuildIds : SetupVerifiedRole(u, g)
    \/ \E u \in UserIds, g \in GuildIds, what \in {"edit_nickname", "edit_verified_role"} :
          EditPolicy(u, g, what)
    \/ \E u \in UserIds, g \in GuildIds, skip \in BOOLEAN, group \in GroupChoices :
          SetupGroup(u, g, skip, group, TRUE)
    \/ \E u \in UserIds, g \in GuildIds, skip \in BOOLEAN, group \in GroupChoices :
          EditGroup(u, g, skip, group, TRUE)
    \/ \E u \in UserIds, g \in GuildIds : GroupLookupFails(u, g)
    \/ \E u \in UserIds, g \in GuildIds : ResetConfig(u, g)

SpecConfigs == InitConfigs /\ [][NextConfigs]_vars

(***************************************************************************)
(* C27  Guild-removed cleanup: after on_guild_remove(g) the guild has no   *)
(* ServerConfig row, no GroupRole row and no UserServer row; the rows of   *)
(* every other guild are as before; and a verification request for the     *)
(* guild is answered as not configured.                                    *)
(***************************************************************************)
\* The configuration a reconciliation of guild g reads from the database.
ReconConfig(row) ==
    IF ~row.exists THEN NoConfig
    ELSE Config(row.setup_completed, "roblox_username", TRUE, 1, <<>>,
                row.group_roles_enabled, row.group_id, None)

C27_GuildRemovedCleanup ==
    [][ \A g \in GuildIds :
          OnGuildRemove(g) =>
             /\ ~serverConfigs'[g].exists
             /\ RowsOf(groupRoles', g) = <<>>
             /\ \A r \in userServers' : r[2] # g
             /\ \A h \in GuildIds \ {g} : serverConfigs'[h] = serverConfigs[h]
             /\ RowsNotOf(groupRoles', g) = RowsNotOf(groupRoles, g)
             /\ {r \in userServers' : r[2] # g} = {r \in userServers : r[2] # g}
             /\ verify_user(None, {}, ReconConfig(serverConfigs'[g]), TRUE,
                            <<Account("Foo123", 100, TRUE)>>, GroupRoleRows, RoleIds,
                            NoAnswer, NoProfile, "Forbidden", {}).ret.signal = "not_configured"
      ]_vars

\* Guild 1, configured with a group and its mappings, was removed, while guild 2
\* keeps its configuration, its mappings and its memberships.
C27_Witness ==
    /\ dbRet.op = "guild_remove" /\ dbRet.guild = 1 /\ dbRet.found
    /\ ~serverConfigs[1].exists
    /\ serverConfigs[2].exists /\ RowsOf(groupRoles, 2) # <<>>
    /\ \E r \in userServers : r[2] = 2

(***************************************************************************)
(* C29  GroupRole mapping uniqueness: no two GroupRole rows of one guild's *)
(* configuration have the same roblox_role_id, and the rows of a guild are *)
(* exactly the roles of rank > 0 of the group its configuration names      *)
(* (none when it names no group).                                          *)
(***************************************************************************)
RankedRoleIds(group) ==
    IF group = None THEN {}
    ELSE {GroupCatalog[group][i].id :
             i \in {j \in DOMAIN GroupCatalog[group] : GroupCatalog[group][j].rank > 0}}

C29_GroupRoleUniqueness ==
    /\ \A i, j \in DOMAIN groupRoles :
          (i # j /\ groupRoles[i].server = groupRoles[j].server)
             => groupRoles[i].roblox_role_id # groupRoles[j].roblox_role_id
    /\ \A g \in GuildIds :
          {r.roblox_role_id : r \in Range(RowsOf(groupRoles, g))}
             = RankedRoleIds(serverConfigs[g].group_id)

(***************************************************************************)
(* The /update command.  The member of the model is the target; the        *)
(* invoker is the target (no user argument, or the invoker named) or       *)
(* another member, who has the manage_roles guild permission or not.       *)
(***************************************************************************)
\* Mutant of update_command: the permission of the invoker is not looked at.
update_command_Unchecked(in_guild, targets_self, manage_roles, nick, roles, cfg, user, accounts, rows, guild, lookup, profile, F) ==
    LET s == Start(nick, roles)
    IN IF ~in_guild THEN Return(FALSE, "guild_only", FALSE, s)
       ELSE IF ~user THEN Return(FALSE, "no_linked_identity", FALSE, s)
       ELSE IF accounts = <<>> THEN Return(FALSE, "no_linked_identity", FALSE, s)
       ELSE IF ~cfg.exists \/ ~cfg.setup_completed THEN Return(FALSE, "not_configured", FALSE, s)
       ELSE update_user(nick, roles, cfg, user, accounts, rows, guild, lookup, profile, F)

update_command(in_guild, targets_self, manage_roles, nick, roles, cfg, user, accounts, rows, guild, lookup, profile, F) ==
    LET s == Start(nick, roles)
    IN IF ~in_guild THEN Return(FALSE, "guild_only", FALSE, s)
       ELSE IF ~targets_self /\ ~manage_roles
            THEN Return(FALSE, "permission_denied", FALSE, s)
       ELSE IF ~user THEN Return(FALSE, "no_linked_identity", FALSE, s)
       ELSE IF accounts = <<>> THEN Return(FALSE, "no_linked_identity", FALSE, s)
       ELSE IF ~cfg.exists \/ ~cfg.setup_completed THEN Return(FALSE, "not_configured", FALSE, s)
       ELSE update_user(nick, roles, cfg, user, accounts, rows, guild, lookup, profile, F)

UpdateCommand ==
    \E F \in FailureSets, in_guild \in BOOLEAN, targets_self \in BOOLEAN, manage_roles \in BOOLEAN :
        /\ FinishRecon(F, update_command(in_guild, targets_self, manage_roles,
                                         memberNick, memberRoles, serverConfig, userRow,
                                         linkedAccounts, GroupRoleRows, guildRoles,
                                         groupLookup, profileLookup, F))
        /\ interaction' = [command |-> "update", in_guild |-> in_guild,
                           targets_self |-> targets_self, manage_roles |-> manage_roles]
        /\ UNCHANGED <<rateThreadVars, botVars, issuedOn, guildVars, dbVars, authVars, linkVars>>

InitCommands == InitEntryPoints

NextCommands == UpdateCommand \/ MemberJoin

SpecCommands == InitCommands /\ [][NextCommands]_vars

(***************************************************************************)
(* C28  Update permission: an /update whose target is another member, by   *)
(* an invoker without manage_roles, is refused and issues no call and      *)
(* changes neither the nickname nor the roles of the target; an /update of *)
(* the invoker itself is never refused for a missing permission, and runs  *)
(* the reconciliation whenever the guild is configured and the invoker has *)
(* a linked account.                                                       *)
(***************************************************************************)
C28_UpdatePermission ==
    [][ (UpdateCommand /\ interaction'.in_guild) =>
          /\ (~interaction'.targets_self /\ ~interaction'.manage_roles) =>
                /\ ret'.signal = "permission_denied"
                /\ ~ret'.success
                /\ issued' = <<>>
                /\ memberNick' = memberNick
                /\ memberRoles' = memberRoles
          /\ interaction'.targets_self =>
                /\ ret'.signal # "permission_denied"
                /\ (Configured(serverConfig) /\ HasIdentity) => ret'.signal \in {"ok", "failed"}
      ]_vars

\* A member without manage_roles asked for the update of another member who is
\* linked in a configured guild, and was refused.
C28_Witness ==
    /\ interaction.command = "update" /\ interaction.in_guild
    /\ ~interaction.targets_self /\ ~interaction.manage_roles
    /\ Configured(serverConfig) /\ HasIdentity
    /\ ret.signal = "permission_denied"
    /\ issued = <<>>

(***************************************************************************)
(* Authenticated requests.  A request of user u carries the JWT of a login *)
(* of u; get_current_user looks up the User row, the unexpired session and *)
(* the stored Discord token, which it refreshes when it has expired.       *)
(* refresh_ok: refresh_discord_token answered with a new token.            *)
(***************************************************************************)
get_current_user(us, sess, tokens, u, refresh_ok) ==
    IF u \notin us THEN [ok |-> FALSE, tokens |-> tokens]                \* 401 User not found
    ELSE IF u \notin sess THEN [ok |-> FALSE, tokens |-> tokens]         \* 401 Session expired
    ELSE IF tokens[u] = "valid" THEN [ok |-> TRUE, tokens |-> tokens]
    ELSE IF tokens[u] = "expired" /\ refresh_ok
         THEN [ok |-> TRUE, tokens |-> [tokens EXCEPT ![u] = "valid"]]
    ELSE [ok |-> FALSE, tokens |-> tokens]                               \* 401 Discord token expired

OnlyAuth ==
    /\ UNCHANGED <<reconVars, now, cacheVars, threadVars, rateVars>>
    /\ UNCHANGED <<rateThreadVars, botVars, callVars, guildVars, dbVars, linkVars>>

\* A request of u with the JWT of an earlier login
Request(u) ==
    \E refresh_ok \in BOOLEAN :
        /\ authRet # NoAuthOp
        /\ discord_tokens' = get_current_user(users, sessions, discord_tokens, u, refresh_ok).tokens
        /\ authRet' = [op |-> "request", user |-> u,
                       ok |-> get_current_user(users, sessions, discord_tokens, u, refresh_ok).ok]
        /\ UNCHANGED sessions
        /\ OnlyAuth

\* An hour has passed since the token of u was stored.
TokenExpires(u) ==
    /\ discord_tokens[u] = "valid"
    /\ discord_tokens' = [discord_tokens EXCEPT ![u] = "expired"]
    /\ authRet' = [op |-> "token_expired", user |-> u, ok |-> TRUE]
    /\ UNCHANGED sessions
    /\ OnlyAuth

\* _cleanup_expired_tokens
CleanupExpiredTokens ==
    /\ \E u \in UserIds : discord_tokens[u] = "expired"
    /\ discord_tokens' = [u \in UserIds |->
                             IF discord_tokens[u] = "expired" THEN "absent" ELSE discord_tokens[u]]
    /\ authRet' = [op |-> "cleanup_tokens", user |-> None, ok |-> TRUE]
    /\ UNCHANGED sessions
    /\ OnlyAuth

\* _cleanup_expired_tokens
cleanup_expired_tokens(tokens) ==
    [v \in DOMAIN tokens |-> IF tokens[v] = "expired" THEN "absent" ELSE tokens[v]]

\* sync_user_servers_with_token for user u.  refresh: the stored token carries no
\* refresh token ("none"), or refresh_discord_token fails or answers ("fails",
\* "ok"); late: the hour of a token that the sweep kept ends before the test of
\* expires_at that follows the sweep.
sync_user_servers_with_token(tokens, u, refresh, late) ==
    IF cleanup_expired_tokens(tokens)[u] = "absent"
    THEN [ok |-> FALSE, synced |-> FALSE, tokens |-> cleanup_expired_tokens(tokens)]
    ELSE IF ~late
    THEN [ok |-> TRUE, synced |-> TRUE, tokens |-> cleanup_expired_tokens(tokens)]
    ELSE IF refresh = "ok"
    THEN [ok |-> TRUE, synced |-> TRUE,
          tokens |-> [cleanup_expired_tokens(tokens) EXCEPT ![u] = "valid"]]
    ELSE [ok |-> FALSE, synced |-> FALSE,
          tokens |-> [cleanup_expired_tokens(tokens) EXCEPT ![u] = "expired"]]

\* What the call stores and returns; gs: the guilds sync_user_servers finds.
SyncOutcome(u, gs, out) ==
    /\ discord_tokens' = out.tokens
    /\ authRet' = [op |-> "sync", user |-> u, ok |-> out.ok]
    /\ userServers' = IF out.synced
                      THEN {r \in userServers : r[1] # u} \cup {<<u, g>> : g \in gs}
                      ELSE userServers
    /\ dbRet' = [op |-> IF out.synced THEN "sync_servers" ELSE "none",
                 user |-> u, guild |-> 0, found |-> out.synced]
    /\ UNCHANGED <<users, linked, dependents, serverConfigs, groupRoles, botServers>>
    /\ UNCHANGED <<cacheVars, sessions, linkedRows>>
    /\ OutsideDb

SyncWithToken(u, refresh, late) ==
    /\ u \in users
    /\ \E gs \in {{}, {1}} :
          SyncOutcome(u, gs, sync_user_servers_with_token(discord_tokens, u, refresh, late))

RefreshAnswers == {"none", "fails", "ok"}

InitAuth == InitCache

NextAuth ==
    \/ UserLogsIn
    \/ \E u \in UserIds : Request(u)
    \/ \E u \in UserIds : TokenExpires(u)
    \/ CleanupExpiredTokens
    \/ UserRowsChange
    \/ \E u \in UserIds, refresh \in RefreshAnswers, late \in BOOLEAN :
          SyncWithToken(u, refresh, late)

SpecAuth == InitAuth /\ [][NextAuth]_vars

(***************************************************************************)
(* C30  Login invalidation scope: a login of user A leaves the stored      *)
(* Discord token and the cached user data of every other user B as they    *)
(* were, and a request of B that was authenticated before the login is     *)
(* authenticated after it.                                                 *)
(***************************************************************************)
CachedFor(c, u) == {c[i] : i \in {j \in DOMAIN c : c[j].key = UserKey(u)}}

C30_LoginInvalidationScope ==
    [][ \A a \in UserIds :
          (\E gs \in SUBSET GuildIds : Login(a, gs)) =>
             \A b \in UserIds \ {a} :
                /\ discord_tokens'[b] = discord_tokens[b]
                /\ CachedFor(cache', b) = CachedFor(cache, b)
                /\ get_current_user(users, sessions, discord_tokens, b, FALSE).ok
                      => get_current_user(users', sessions', discord_tokens', b, FALSE).ok
      ]_vars

(***************************************************************************)
(* Reconciliations in a guild that has a role no policy names: the group   *)
(* is called "Acme", a name no role of the guild carries, and only role 4  *)
(* is listed in roles_to_remove, so that role 5 ("Builders") is neither    *)
(* the verified role, nor listed, nor mapped, nor a default-named role.    *)
(***************************************************************************)
InitFrame ==
    /\ \E ve \in BOOLEAN, ge \in BOOLEAN :
          /\ serverConfig = Config(TRUE, "roblox_username", ve, 1, <<4>>, ge,
                                   IF ge THEN TargetGroup ELSE None,
                                   IF ge THEN "Acme" ELSE None)
          /\ groupLookup \in GroupLookups
          /\ (~ge => groupLookup = NoAnswer)
    /\ userRow = TRUE
    /\ linkedAccounts = <<Account("Foo123", 100, TRUE)>>
    /\ guildRoles = RoleIds
    /\ memberRoles \in SUBSET guildRoles
    /\ memberNick = "Bar"
    /\ profileLookup = NoProfile
    /\ ret = NoReturn
    /\ issued = <<>>
    /\ streak = 0
    /\ CacheInit /\ RateInit /\ AppInit

SpecFrame == InitFrame /\ [][NextEntryPoints]_vars

(***************************************************************************)
(* C31  Frame of the reconciliation: a call, whatever the platform         *)
(* rejects, leaves the stored configuration, mappings, user row and linked *)
(* accounts and the guild's roles as they were, and among the member's     *)
(* roles adds or removes only the verified role, the roles of              *)
(* roles_to_remove, the mapped roles and the roles carrying one of the     *)
(* default names; every other role of the member is unchanged.             *)
(***************************************************************************)
PolicyRoles(cfg, guild) ==
    {cfg.verified_role_id} \cup Range(cfg.roles_to_remove)
       \cup {GroupRoleRows[i].discord_role_id : i \in DOMAIN GroupRoleRows}
       \cup {r \in guild : RoleName(r) \in {cfg.group_name, "Newcomers", "Member"}}

C31_ReconcileFrame ==
    [][ /\ UNCHANGED <<serverConfig, userRow, linkedAccounts, guildRoles>>
        /\ UNCHANGED <<users, linked, serverConfigs, groupRoles, userServers>>
        /\ \A r \in RoleIds \ PolicyRoles(serverConfig, guildRoles) :
              (r \in memberRoles') = (r \in memberRoles)
        /\ (memberRoles' \ memberRoles) \cup (memberRoles \ memberRoles')
              \subseteq PolicyRoles(serverConfig, guildRoles)
      ]_vars

\* A call in which one mutation was accepted and another rejected: the member
\* held role 5, which no policy names, before and holds it after.
C31_Witness ==
    /\ serverConfig.group_name = "Acme"
    /\ \E i \in DOMAIN issued : issued[i].op = "remove_roles" /\ issued[i].ok
    /\ \E i \in DOMAIN issued : issued[i].op # "send" /\ ~issued[i].ok
    /\ 5 \in memberRoles
    /\ 5 \notin PolicyRoles(serverConfig, guildRoles)

(***************************************************************************)
(* C32  Result accuracy: the embed_data a reconciliation returns names a   *)
(* role as added exactly when an add_roles call for it was accepted, names *)
(* a role as removed exactly when a remove_roles call holding it was       *)
(* accepted, and has nickname_updated set exactly when the nickname edit   *)
(* was accepted.                                                           *)
(***************************************************************************)
AcceptedCalls(log, op) == {i \in DOMAIN log : log[i].op = op /\ log[i].ok}
NamesIn(log, op) == UNION {{RoleName(r) : r \in Range(log[i].roles)} : i \in AcceptedCalls(log, op)}

C32_ResultAccuracy ==
    Reconciled =>
       /\ Range(ret.embed.roles_added) \cup Range(ret.embed.group_roles_added)
             = NamesIn(issued, "add_roles")
       /\ Range(ret.embed.roles_removed) \cup Range(ret.embed.group_roles_removed)
             = NamesIn(issued, "remove_roles")
       /\ (ret.embed.nickname_updated # None) = (AcceptedCalls(issued, "edit") # {})

(***************************************************************************)
(* C33  Nickname fixed point: once a call has set the nickname to the      *)
(* computed target, the target computed again for the same member and      *)
(* account with the same external data is the nickname the member has, so  *)
(* a further reconciliation leaves the nickname alone.                     *)
(***************************************************************************)
C33_NicknameFixedPoint ==
    (Reconciled /\ AcceptedCalls(issued, "edit") # {}) =>
        get_formatted_nickname(memberNick, SelectAccount(linkedAccounts),
                               serverConfig.nickname_format, profileLookup) = memberNick

(***************************************************************************)
(* C34  Setup state machine: a stored ServerConfig has setup_completed set *)
(* exactly when its setup_step is "completed", its setup_step is one of    *)
(* nickname, verified_role, group, completed, and a configuration whose    *)
(* step is "completed" keeps that step for as long as the row exists.      *)
(***************************************************************************)
SetupSteps == {"nickname", "verified_role", "group", "completed"}

C34_SetupStateMachine ==
    [][ \A g \in GuildIds :
          /\ serverConfigs'[g].exists =>
                /\ serverConfigs'[g].setup_step \in SetupSteps
                /\ serverConfigs'[g].setup_completed
                      = (serverConfigs'[g].setup_step = "completed")
          /\ (/\ serverConfigs[g].exists
              /\ serverConfigs[g].setup_step = "completed"
              /\ serverConfigs'[g].exists)
                => serverConfigs'[g].setup_step = "completed"
      ]_vars

(***************************************************************************)
(* C35  Overwrite keeps the other entries: a set of a key that is stored   *)
(* replaces the entry of that key and removes no other key, whatever the   *)
(* number of entries, max_size included.                                   *)
(***************************************************************************)
C35_OverwriteKeepsOthers ==
    [][ \A k \in CacheKeys :
          (CacheSetKey(k) /\ k \in KeysOf(cache)) =>
             /\ KeysOf(cache') = KeysOf(cache)
             /\ \A j \in DOMAIN cache : cache[j].key # k => cache[j] \in Range(cache')
      ]_vars

(***************************************************************************)
(* Linking Roblox accounts.  link_roblox_account awaits between its lookup *)
(* of the roblox_id and its commit of the new row (the avatar request, the *)
(* commit itself), so the requests of two users interleave there: the      *)
(* lookup and the commit are separate steps.  Each request has its own     *)
(* database session.                                                       *)
(***************************************************************************)
MaxLinkedRows == 3      \* LinkedAccount rows stored or about to be stored

\* get_linked_account_by_roblox_id: scalar_one_or_none of the rows with the id
\* ("many": MultipleResultsFound is raised).
get_linked_account_by_roblox_id(rows, rid) ==
    LET hits == {i \in DOMAIN rows : rows[i].roblox_id = rid}
    IN IF hits = {} THEN "none"
       ELSE IF Cardinality(hits) = 1 THEN "one" ELSE "many"

OnlyLinks ==
    /\ UNCHANGED <<reconVars, now, cacheVars, threadVars, rateVars>>
    /\ UNCHANGED <<rateThreadVars, botVars, callVars, guildVars, authVars>>
    /\ UNCHANGED <<users, dependents, userServers, serverConfigs, groupRoles, botServers>>

PendingLinks == {u \in UserIds : linkReqs[u].stage = "adding"}

\* link_roblox_account up to the lookup: Roblox named the account rid; a row
\* with that id (or an exception of the lookup) ends the request with success False.
LinkLookup(u, rid) ==
    /\ u \in users
    /\ linkReqs[u].stage = "idle"
    /\ Len(linkedRows) + Cardinality(PendingLinks) < MaxLinkedRows
    /\ IF get_linked_account_by_roblox_id(linkedRows, rid) = "none"
       THEN /\ linkReqs' = [linkReqs EXCEPT ![u] = [stage |-> "adding", roblox_id |-> rid]]
            /\ dbRet' = [op |-> "link_lookup", user |-> u, guild |-> 0, found |-> FALSE]
       ELSE /\ linkReqs' = linkReqs
            /\ dbRet' = [op |-> "link_refused", user |-> u, guild |-> 0, found |-> TRUE]
    /\ UNCHANGED <<linked, linkedRows>>
    /\ OnlyLinks

\* link_roblox_account from db.add to its return: the row is committed.
LinkCommit(u) ==
    /\ linkReqs[u].stage = "adding"
    /\ linkedRows' = Append(linkedRows, LinkedAccountRow(u, linkReqs[u].roblox_id))
    /\ linked' = linked \cup {u}
    /\ linkReqs' = [linkReqs EXCEPT ![u] = IdleLink]
    /\ dbRet' = [op |-> "link", user |-> u, guild |-> 0, found |-> TRUE]
    /\ OnlyLinks

\* unlink_roblox_account(u, account_id): the row of that id, if it is u's
UnlinkAccount(u, account_id) ==
    /\ u \in users
    /\ IF account_id \in DOMAIN linkedRows /\ linkedRows[account_id].user = u
       THEN /\ linkedRows' = [i \in 1..(Len(linkedRows) - 1) |->
                                 IF i < account_id THEN linkedRows[i] ELSE linkedRows[i + 1]]
            /\ dbRet' = [op |-> "unlink", user |-> u, guild |-> 0, found |-> TRUE]
       ELSE /\ linkedRows' = linkedRows
            /\ dbRet' = [op |-> "unlink", user |-> u, guild |-> 0, found |-> FALSE]
    /\ linked' = {linkedRows'[i].user : i \in DOMAIN linkedRows'}
    /\ UNCHANGED linkReqs
    /\ OnlyLinks

\* Both users have logged in; nothing is linked.
InitLinks ==
    /\ ReconIdle /\ CacheInit /\ RateInit
    /\ RateThreadInit /\ BotInit /\ GuildInit /\ AuthInit /\ LinkInit
    /\ users = UserIds
    /\ linked = {}
    /\ dependents = UserIds
    /\ userServers = {}
    /\ serverConfigs = [g \in GuildIds |-> NoRow]
    /\ groupRoles = <<>>
    /\ botServers = {}
    /\ dbRet = NoDbOp

NextLinks ==
    \/ \E u \in UserIds, rid \in RobloxIds : LinkLookup(u, rid)
    \/ \E u \in UserIds : LinkCommit(u)
    \/ \E u \in UserIds, account_id \in 1..MaxLinkedRows : UnlinkAccount(u, account_id)

SpecLinks == InitLinks /\ [][NextLinks]_vars

(***************************************************************************)
(* C36  Linked-account uniqueness: whatever the order and interleaving of  *)
(* link and unlink requests, no two LinkedAccount rows have the same       *)
(* roblox_id, and a link request for a roblox_id that has a row stores     *)
(* nothing.                                                                *)
(***************************************************************************)
C36_OneRowPerRobloxId ==
    \A i, j \in DOMAIN linkedRows :
        i # j => linkedRows[i].roblox_id # linkedRows[j].roblox_id

C36_AlreadyLinkedRefused ==
    \A u \in UserIds :
        (/\ linkReqs[u].stage = "adding"
         /\ get_linked_account_by_roblox_id(linkedRows, linkReqs[u].roblox_id) # "none"
         /\ linkReqs'[u].stage = "idle")
        => linkedRows' = linkedRows

C36_LinkedAccountUniqueness ==
    /\ []C36_OneRowPerRobloxId
    /\ [][C36_AlreadyLinkedRefused]_vars

(***************************************************************************)
(* C37  Expired-token refresh on sync: sync_user_servers_with_token for a  *)
(* user whose stored token has expired and carries a refresh token, with   *)
(* the refresh answered, stores the refreshed token, syncs the servers and *)
(* returns True; it returns False only when no token is stored, the token  *)
(* carries no refresh token or the refresh fails.                          *)
(***************************************************************************)
C37_ExpiredTokenRefreshed ==
    [][ \A u \in UserIds, refresh \in RefreshAnswers, late \in BOOLEAN :
          SyncWithToken(u, refresh, late) =>
             /\ (discord_tokens[u] = "expired" /\ refresh = "ok") =>
                   /\ discord_tokens'[u] = "valid"
                   /\ dbRet'.op = "sync_servers"
                   /\ authRet'.ok
             /\ ~authRet'.ok =>
                   \/ discord_tokens[u] = "absent"
                   \/ refresh \in {"none", "fails"}
      ]_vars

====
